---- MODULE Spec2Model ----
(***************************************************************************)
(* Bulk tanker delivery core: delivery creation with multi-compartment     *)
(* assignments (create_bulk_tanker_delivery), the contamination / capacity *)
(* validation it calls (validate_cross_contamination) and the delivery     *)
(* status update (update_delivery_status), over the tables declared in     *)
(* app/models/bulk_tanker.py; further the solver payload of a delivery     *)
(* (get_vroom_integration_payload), the optimization endpoint with the     *)
(* solver client (run_direct_optimization, VROOMService.optimize) and the   *)
(* UAT hook's intent detection (detect_uat_intent).                        *)
(*                                                                         *)
(* Units.  Decimal columns are kept as scaled integers:                    *)
(*   density_kg_per_liter   in 1/10000 kg per litre  (DECIMAL(6,4))        *)
(*   in-memory weights      in 1/10000 kg  (volume * density, exact)       *)
(*   stored weights, co2    in 1/100 kg    (DECIMAL(10,2), DECIMAL(8,2))   *)
(*   utilization            in 1/100 percent (DECIMAL(5,2))                *)
(*   distance, fuel consumed in 1/100 km, 1/100 litre (DECIMAL(8,2))       *)
(* Optional values are sequences of length at most one.                    *)
(***************************************************************************)
EXTENDS Integers, Sequences, FiniteSets, TLC

VARIABLES vehicles, compartments, products, deliveries, assignments,
          sessions, now, nextDeliveryId,
          optimization_runs, route_summaries, route_steps, optimization_reply,
          uat_message, uat_intent

\* The tables the optimization endpoint writes, and its last answer.
optimizer == <<optimization_runs, route_summaries, route_steps, optimization_reply>>

\* The message the UAT hook was handed, and what it detected in it.
hooks == <<uat_message, uat_intent>>

vars == <<vehicles, compartments, products, deliveries, assignments,
          sessions, now, nextDeliveryId, optimizer, hooks>>

----------------------------------------------------------------------------
(* Bounds of the model *)

\* The clock (one unit is one calendar day) runs from 1 to MaxDay.
MaxDay == 2

\* The delivery id sequence hands out 1 .. MaxDeliveryId.
MaxDeliveryId == 2

----------------------------------------------------------------------------
(* Optional values, decimal rounding *)

None == <<>>

Some(x) == <<x>>

\* No optimization has run: its tables are empty.
InitOptimizer ==
  /\ optimization_runs = << >>
  /\ route_summaries = << >>
  /\ route_steps = << >>
  /\ optimization_reply = None

\* The UAT hook has not been handed a message.
InitHooks ==
  /\ uat_message = << >>
  /\ uat_intent = None

\* NUMERIC(p,s) rounds a non-negative value half away from zero.
RoundDiv(n, d) == (2 * n + d) \div (2 * d)

----------------------------------------------------------------------------
(* Program constants *)

\* validate_volume: "Reasonable maximum for single compartment"
MaxReasonableVolume == 50000

\* validate_assignments: "Maximum compartments per tanker"
MaxAssignments == 12

\* utilization_valid: capacity_utilization_percent BETWEEN 0 AND 100
MaxUtilization == 10000

\* "Standard cleaning time" / "Standard cleaning cost" (in cents)
StandardCleaningTime == 120

StandardCleaningCost == 45000

TankerCertificationStatus == {"certified", "expired", "suspended", "pending_renewal"}

CompartmentStatus == {"operational", "maintenance_required", "failed",
                      "cleaning_in_progress", "out_of_service"}

DeliveryStatuses == {"planned", "dispatched", "loading", "in_transit",
                     "unloading", "completed", "cancelled"}

----------------------------------------------------------------------------
(* Master data the requests run against *)

\* bulk_tanker_vehicles rows: tanker 1 is the 30000 L / 3 compartment tanker,
\* tanker 2 a single-compartment tanker without hazmat certification.
InitVehicles ==
  (1 :> [project_id |-> 1, total_capacity_liters |-> 30000, compartment_count |-> 3,
         dot_certified |-> TRUE, hazmat_certification |-> TRUE,
         certification_status |-> "certified", last_inspection |-> Some(1)]) @@
  (2 :> [project_id |-> 1, total_capacity_liters |-> 10000, compartment_count |-> 1,
         dot_certified |-> TRUE, hazmat_certification |-> FALSE,
         certification_status |-> "certified", last_inspection |-> None])

\* tanker_compartments rows.
InitCompartments ==
  (1 :> [tanker_vehicle_id |-> 1, capacity_liters |-> 10000,
         operational_status |-> "operational", last_product_id |-> None,
         requires_cleaning |-> FALSE,
         current_product_id |-> None, current_volume_liters |-> 0]) @@
  (2 :> [tanker_vehicle_id |-> 1, capacity_liters |-> 10000,
         operational_status |-> "operational", last_product_id |-> Some(2),
         requires_cleaning |-> FALSE,
         current_product_id |-> None, current_volume_liters |-> 0]) @@
  (3 :> [tanker_vehicle_id |-> 1, capacity_liters |-> 10000,
         operational_status |-> "maintenance_required", last_product_id |-> None,
         requires_cleaning |-> TRUE,
         current_product_id |-> None, current_volume_liters |-> 0]) @@
  (4 :> [tanker_vehicle_id |-> 2, capacity_liters |-> 5000,
         operational_status |-> "operational", last_product_id |-> Some(1),
         requires_cleaning |-> FALSE,
         current_product_id |-> None, current_volume_liters |-> 0])

\* fuel_products rows.  DSL50 is a second diesel grade: it needs cleaning
\* after ULSD without listing ULSD as a contamination risk, and its density
\* uses all four decimals of the column.
InitProducts ==
  (1 :> [product_code |-> "ULSD", fuel_type |-> "diesel",
         density_kg_per_liter |-> 8400, hazmat_class |-> "3",
         cross_contamination_risk |-> {"JET-A1"},
         cleaning_required_after |-> {"JET-A1"}]) @@
  (2 :> [product_code |-> "JET-A1", fuel_type |-> "jet_fuel",
         density_kg_per_liter |-> 8000, hazmat_class |-> "3",
         cross_contamination_risk |-> {},
         cleaning_required_after |-> {}]) @@
  (3 :> [product_code |-> "ULP95", fuel_type |-> "petrol",
         density_kg_per_liter |-> 7450, hazmat_class |-> "3",
         cross_contamination_risk |-> {"ULSD"},
         cleaning_required_after |-> {}]) @@
  (4 :> [product_code |-> "DSL50", fuel_type |-> "diesel",
         density_kg_per_liter |-> 8345, hazmat_class |-> "3",
         cross_contamination_risk |-> {"ULP95"},
         cleaning_required_after |-> {"ULSD", "ULP95"}])

----------------------------------------------------------------------------
(* Requests *)

\* CompartmentAssignmentRequest
Assign(c, p, v) ==
  [compartment_id |-> c, fuel_product_id |-> p, assigned_volume_liters |-> v]

\* BulkTankerDeliveryRequest together with the project_id query parameter
Request(proj, tanker, as) ==
  [project_id |-> proj, tanker_vehicle_id |-> tanker, compartment_assignments |-> as]

\* The creation requests the clients send.
Requests ==
  { Request(1, 1, << Assign(1, 1, 9000) >>),
    Request(1, 1, << Assign(1, 2, 10000), Assign(3, 1, 8000) >>),
    Request(1, 1, << Assign(2, 1, 5000) >>),
    Request(1, 1, << Assign(1, 1, 12000) >>),
    Request(1, 1, << Assign(2, 1, 5000), Assign(1, 1, 12000) >>),
    Request(1, 1, << Assign(1, 1, 9000), Assign(2, 1, 5000) >>),
    Request(1, 1, << Assign(1, 1, 50001) >>),
    Request(1, 1, << Assign(1, 1, 0) >>),
    Request(1, 1, << >>),
    Request(1, 1, << Assign(1, 1, 1000), Assign(1, 2, 1000) >>),
    Request(1, 1, << Assign(5, 1, 1000) >>),
    Request(1, 1, << Assign(1, 9, 12000) >>),
    Request(1, 2, << Assign(4, 2, 3000) >>),
    Request(1, 2, << Assign(4, 3, 3000) >>),
    Request(1, 2, << Assign(1, 1, 9000), Assign(4, 2, 3000) >>),
    Request(1, 2, << Assign(4, 2, 3000), Assign(1, 1, 3000) >>),
    Request(1, 1, << Assign(1, 4, 1001), Assign(3, 4, 1004) >>),
    Request(1, 3, << Assign(1, 1, 9000) >>),
    Request(2, 1, << Assign(1, 1, 9000) >>) }

\* Requests two clients race with: the same tanker, the same compartment.
ConcurrentRequests ==
  { Request(1, 1, << Assign(1, 1, 9000) >>),
    Request(1, 1, << Assign(1, 2, 10000), Assign(3, 1, 8000) >>),
    Request(1, 2, << Assign(4, 2, 3000) >>) }

----------------------------------------------------------------------------
(* Request schema (pydantic), evaluated before the handler runs *)

\* CompartmentAssignmentRequest.validate_volume and Field(gt=0)
validate_volume(v) == v > 0 /\ v <= MaxReasonableVolume

\* validate_assignments without its duplicate check.
validate_assignments_count_only(as) ==
  /\ Len(as) # 0
  /\ Len(as) <= MaxAssignments

\* BulkTankerDeliveryRequest.validate_assignments and Field(min_items=1)
validate_assignments(as) ==
  /\ Len(as) # 0
  /\ Len(as) <= MaxAssignments
  /\ Cardinality({ as[i].compartment_id : i \in 1..Len(as) }) = Len(as)

\* The request body is accepted by the schema.
RequestValid(r) ==
  /\ \A i \in 1..Len(r.compartment_assignments) :
        validate_volume(r.compartment_assignments[i].assigned_volume_liters)
  /\ validate_assignments(r.compartment_assignments)

----------------------------------------------------------------------------
(* validate_cross_contamination *)

\* ContaminationCheck with the risk read from cleaning_required_after.
ContaminationCheckByCleaning(a) ==
  LET compartment == compartments[a.compartment_id]
      requested   == products[a.fuel_product_id]
      hasLast     == compartment.last_product_id # None
      lastCode    == products[compartment.last_product_id[1]].product_code
      risk        == hasLast /\ lastCode \in requested.cleaning_required_after
      cleaning    == risk /\ lastCode \in requested.cleaning_required_after
  IN  [compartment_id |-> a.compartment_id,
       current_product |-> IF hasLast THEN Some(lastCode) ELSE None,
       requested_product |-> requested.product_code,
       contamination_risk |-> risk,
       cleaning_required |-> cleaning,
       estimated_cleaning_time_minutes |->
          IF cleaning THEN Some(StandardCleaningTime) ELSE None,
       cleaning_cost_estimate |->
          IF cleaning THEN Some(StandardCleaningCost) ELSE None]

\* ContaminationCheck with cleaning decided by cleaning_required_after alone.
ContaminationCheckCleaningAlone(a) ==
  LET compartment == compartments[a.compartment_id]
      requested   == products[a.fuel_product_id]
      hasLast     == compartment.last_product_id # None
      lastCode    == products[compartment.last_product_id[1]].product_code
      risk        == hasLast /\ lastCode \in requested.cross_contamination_risk
      cleaning    == hasLast /\ lastCode \in requested.cleaning_required_after
  IN  [compartment_id |-> a.compartment_id,
       current_product |-> IF hasLast THEN Some(lastCode) ELSE None,
       requested_product |-> requested.product_code,
       contamination_risk |-> risk,
       cleaning_required |-> cleaning,
       estimated_cleaning_time_minutes |->
          IF cleaning THEN Some(StandardCleaningTime) ELSE None,
       cleaning_cost_estimate |->
          IF cleaning THEN Some(StandardCleaningCost) ELSE None]

\* The contamination part of one loop iteration: the CrossContaminationCheck
\* built for an assignment whose compartment and product exist.
ContaminationCheck(a) ==
  LET compartment == compartments[a.compartment_id]
      requested   == products[a.fuel_product_id]
      hasLast     == compartment.last_product_id # None
      lastCode    == products[compartment.last_product_id[1]].product_code
      risk        == hasLast /\ lastCode \in requested.cross_contamination_risk
      cleaning    == risk /\ lastCode \in requested.cleaning_required_after
  IN  [compartment_id |-> a.compartment_id,
       current_product |-> IF hasLast THEN Some(lastCode) ELSE None,
       requested_product |-> requested.product_code,
       contamination_risk |-> risk,
       cleaning_required |-> cleaning,
       estimated_cleaning_time_minutes |->
          IF cleaning THEN Some(StandardCleaningTime) ELSE None,
       cleaning_cost_estimate |->
          IF cleaning THEN Some(StandardCleaningCost) ELSE None]

\* CapacityError with the subtraction turned round.
CapacityErrorSwapped(a) ==
  [kind |-> "CapacityExceeded",
   compartment_id |-> a.compartment_id,
   compartment_capacity |-> compartments[a.compartment_id].capacity_liters,
   requested_volume |-> a.assigned_volume_liters,
   overflow_amount |-> compartments[a.compartment_id].capacity_liters
                         - a.assigned_volume_liters]

\* The capacity_error detail of the 422 raised on overflow.
CapacityError(a) ==
  [kind |-> "CapacityExceeded",
   compartment_id |-> a.compartment_id,
   compartment_capacity |-> compartments[a.compartment_id].capacity_liters,
   requested_volume |-> a.assigned_volume_liters,
   overflow_amount |-> a.assigned_volume_liters
                         - compartments[a.compartment_id].capacity_liters]

\* The loop over the assignments from position i on, checks collected so far
\* in acc: the first failing lookup or capacity check raises, otherwise the
\* list of checks is returned.
RECURSIVE ValidateFrom(_, _, _)
ValidateFrom(as, i, acc) ==
  IF i > Len(as) THEN [kind |-> "checks", checks |-> acc]
  ELSE LET a == as[i] IN
    IF a.compartment_id \notin DOMAIN compartments
      THEN [kind |-> "NotFound", what |-> "compartment", id |-> a.compartment_id]
    ELSE IF a.fuel_product_id \notin DOMAIN products
      THEN [kind |-> "NotFound", what |-> "fuel_product", id |-> a.fuel_product_id]
    ELSE IF a.assigned_volume_liters > compartments[a.compartment_id].capacity_liters
      THEN CapacityError(a)
    ELSE ValidateFrom(as, i + 1, Append(acc, ContaminationCheck(a)))

validate_cross_contamination(as) == ValidateFrom(as, 1, << >>)

----------------------------------------------------------------------------
(* create_bulk_tanker_delivery *)

\* FindTanker without the project filter.
FindTankerAnyProject(r) ==
  IF r.tanker_vehicle_id \in DOMAIN vehicles
  THEN Some(r.tanker_vehicle_id) ELSE None

\* The tanker row selected by id and project, or None.
FindTanker(r) ==
  IF /\ r.tanker_vehicle_id \in DOMAIN vehicles
     /\ vehicles[r.tanker_vehicle_id].project_id = r.project_id
  THEN Some(r.tanker_vehicle_id) ELSE None

\* DotCompliant with the two conditions joined the wrong way.
DotCompliantEither(tanker) ==
  tanker.dot_certified \/ tanker.certification_status = "certified"

\* "Validate DOT compliance": the gate lets the tanker through.
DotCompliant(tanker) ==
  tanker.dot_certified /\ tanker.certification_status = "certified"

\* The compliance_error detail of the 422 raised by the gate.
ComplianceError(id) ==
  [kind |-> "ComplianceViolation",
   type |-> "dot_certification_expired",
   vehicle_id |-> id,
   last_inspection |-> vehicles[id].last_inspection,
   certification_status |-> vehicles[id].certification_status,
   required_actions |-> << "DOT inspection", "Hazmat certification renewal" >>]

\* The contamination_error detail, built from the first check with a risk.
ContaminationError(checks) ==
  LET issues == SelectSeq(checks, LAMBDA c : c.contamination_risk)
  IN  [kind |-> "ContaminationRisk",
       compartment_id |-> issues[1].compartment_id,
       current_product |-> issues[1].current_product,
       requested_product |-> issues[1].requested_product,
       cleaning_required |-> issues[1].cleaning_required,
       estimated_cleaning_time |-> issues[1].estimated_cleaning_time_minutes]

\* "Calculate totals": the sums over the first n assignments.
RECURSIVE TotalVolume(_, _)
TotalVolume(as, n) ==
  IF n = 0 THEN 0
  ELSE TotalVolume(as, n - 1) + as[n].assigned_volume_liters

\* TotalWeight with "=" in place of "+=".
TotalWeightLast(as, n) ==
  IF n = 0 THEN 0
  ELSE as[n].assigned_volume_liters * products[as[n].fuel_product_id].density_kg_per_liter

RECURSIVE TotalWeight(_, _)
TotalWeight(as, n) ==
  IF n = 0 THEN 0
  ELSE TotalWeight(as, n - 1)
         + as[n].assigned_volume_liters * products[as[n].fuel_product_id].density_kg_per_liter

\* CreateValidate with the compliance gate after the assignment checks.
CreateValidateGateLast(r) ==
  LET as     == r.compartment_assignments
      tanker == FindTanker(r)
      result == validate_cross_contamination(as)
  IN  IF ~RequestValid(r) THEN [kind |-> "ValidationError"]
      ELSE IF tanker = None
        THEN [kind |-> "NotFound", what |-> "tanker_vehicle", id |-> r.tanker_vehicle_id]
      ELSE IF result.kind # "checks" THEN result
      ELSE IF \E i \in 1..Len(result.checks) : result.checks[i].contamination_risk
        THEN ContaminationError(result.checks)
      ELSE IF ~DotCompliant(vehicles[tanker[1]]) THEN ComplianceError(tanker[1])
      ELSE [kind |-> "validated",
            tanker_id |-> tanker[1],
            total_capacity_liters |-> vehicles[tanker[1]].total_capacity_liters,
            total_volume |-> TotalVolume(as, Len(as)),
            total_weight |-> TotalWeight(as, Len(as))]

\* The handler up to the totals (everything before the first write): the
\* error it raises, or the totals it goes on with.
CreateValidate(r) ==
  LET as     == r.compartment_assignments
      tanker == FindTanker(r)
      result == validate_cross_contamination(as)
  IN  IF ~RequestValid(r) THEN [kind |-> "ValidationError"]
      ELSE IF tanker = None
        THEN [kind |-> "NotFound", what |-> "tanker_vehicle", id |-> r.tanker_vehicle_id]
      ELSE IF ~DotCompliant(vehicles[tanker[1]]) THEN ComplianceError(tanker[1])
      ELSE IF result.kind # "checks" THEN result
      ELSE IF \E i \in 1..Len(result.checks) : result.checks[i].contamination_risk
        THEN ContaminationError(result.checks)
      ELSE [kind |-> "validated",
            tanker_id |-> tanker[1],
            total_capacity_liters |-> vehicles[tanker[1]].total_capacity_liters,
            total_volume |-> TotalVolume(as, Len(as)),
            total_weight |-> TotalWeight(as, Len(as))]

\* f"BT-DLV-{datetime.now().strftime('%y%m%d')}-{tanker.id:03d}"
DeliveryReference(day, tankerId) == << "BT-DLV", day, tankerId >>

\* The BulkTankerDeliveries row as the database stores it.
NewDelivery(r, t, day) ==
  [delivery_reference |-> DeliveryReference(day, t.tanker_id),
   project_id |-> r.project_id,
   tanker_vehicle_id |-> r.tanker_vehicle_id,
   total_volume_liters |-> t.total_volume,
   total_weight_kg |-> RoundDiv(t.total_weight, 100),
   capacity_utilization_percent |->
      RoundDiv(t.total_volume * 10000, t.total_capacity_liters),
   compartments_used |-> Len(r.compartment_assignments),
   delivery_status |-> "planned",
   actual_departure |-> None,
   actual_completion |-> None,
   distance_traveled_km |-> None,
   fuel_consumed_liters |-> None,
   co2_emissions_kg |-> None,
   safety_incidents |-> << >>,
   created_at |-> day,
   updated_at |-> day]

\* The CompartmentDeliveryAssignments rows of a request, as stored.
NewAssignments(r, id) ==
  LET as == r.compartment_assignments
  IN { [delivery_id |-> id,
        position |-> i,
        compartment_id |-> as[i].compartment_id,
        fuel_product_id |-> as[i].fuel_product_id,
        assigned_volume_liters |-> as[i].assigned_volume_liters,
        calculated_weight_kg |->
           RoundDiv(as[i].assigned_volume_liters
                      * products[as[i].fuel_product_id].density_kg_per_liter, 100),
        assignment_status |-> "assigned"] : i \in 1..Len(as) }

\* The CHECK constraints of bulk_tanker_deliveries a new row can break.
DeliveryChecksHold(row) ==
  /\ row.total_volume_liters >= 0
  /\ row.total_weight_kg >= 0
  /\ row.capacity_utilization_percent >= 0
  /\ row.capacity_utilization_percent <= MaxUtilization

\* ReferenceFree on a table without the unique index.
ReferenceFreeNoIndex(ref) == ref = ref

\* UNIQUE delivery_reference, against the committed rows.
ReferenceFree(ref) ==
  \A d \in DOMAIN deliveries : deliveries[d].delivery_reference # ref

\* UNIQUE (delivery_id, compartment_id) over the rows of one delivery.
delivery_compartment_unique(rows) ==
  \A x \in rows : \A y \in rows :
     x.compartment_id = y.compartment_id => x = y

\* The 201 response body.
CreatedResponse(id, r, t, row) ==
  [kind |-> "Created",
   delivery_id |-> id,
   delivery_reference |-> row.delivery_reference,
   tanker_vehicle_id |-> t.tanker_id,
   total_volume_liters |-> t.total_volume,
   total_weight_kg |-> t.total_weight,
   utilization_num |-> t.total_volume * 100,
   utilization_den |-> t.total_capacity_liters,
   compartments_used |-> row.compartments_used,
   delivery_status |-> row.delivery_status]

\* A request handler's database session between requests.
IdleSession ==
  [pc |-> "idle", req |-> None, totals |-> None, pending |-> None, resp |-> None]

\* The session after its handler returned or raised.
DoneSession(req, resp) ==
  [pc |-> "done", req |-> req, totals |-> None, pending |-> None,
   resp |-> Some(resp)]

\* The handler runs up to the totals: it raises, or goes on to the insert.
CreateBegin(s, r) ==
  /\ sessions[s].pc = "idle"
  /\ LET out == CreateValidate(r)
     IN  sessions' = [sessions EXCEPT ![s] =
            IF out.kind = "validated"
            THEN [pc |-> "validated", req |-> Some(r), totals |-> Some(out),
                  pending |-> None, resp |-> None]
            ELSE DoneSession(Some(r), out)]
  /\ UNCHANGED <<vehicles, compartments, products, deliveries, assignments,
                 now, nextDeliveryId>>
  /\ UNCHANGED optimizer
  /\ UNCHANGED hooks

\* Another session holds an uncommitted row with this reference: the insert
\* waits on the unique index until that transaction ends.
InsertBlocked(s, ref) ==
  \E o \in DOMAIN sessions \ {s} :
     /\ sessions[o].pending # None
     /\ sessions[o].pending[1].row.delivery_reference = ref

\* CreateFlush on a connection that commits each statement.
CreateFlushAutocommit(s) ==
  /\ sessions[s].pc = "validated"
  /\ nextDeliveryId <= MaxDeliveryId
  /\ LET r   == sessions[s].req[1]
         t   == sessions[s].totals[1]
         row == NewDelivery(r, t, now)
         ok  == DeliveryChecksHold(row) /\ ReferenceFree(row.delivery_reference)
     IN  /\ ~InsertBlocked(s, row.delivery_reference)
         /\ sessions' = [sessions EXCEPT ![s] =
               IF ok
               THEN [@ EXCEPT !.pc = "flushed",
                              !.pending = Some([id |-> nextDeliveryId, row |-> row])]
               ELSE DoneSession(Some(r), [kind |-> "InternalError", at |-> "flush"])]
         /\ deliveries' = IF ok THEN deliveries @@ (nextDeliveryId :> row)
                          ELSE deliveries
  /\ nextDeliveryId' = nextDeliveryId + 1
  /\ UNCHANGED <<vehicles, compartments, products, assignments, now>>
  /\ UNCHANGED optimizer
  /\ UNCHANGED hooks

\* db.add(delivery); await db.flush(): the INSERT of the delivery row inside
\* the session's transaction.  A constraint violation raises and the
\* transaction is rolled back when the session closes.
CreateFlush(s) ==
  /\ sessions[s].pc = "validated"
  /\ nextDeliveryId <= MaxDeliveryId
  /\ LET r   == sessions[s].req[1]
         t   == sessions[s].totals[1]
         row == NewDelivery(r, t, now)
     IN  /\ ~InsertBlocked(s, row.delivery_reference)
         /\ sessions' = [sessions EXCEPT ![s] =
               IF DeliveryChecksHold(row) /\ ReferenceFree(row.delivery_reference)
               THEN [@ EXCEPT !.pc = "flushed",
                              !.pending = Some([id |-> nextDeliveryId, row |-> row])]
               ELSE DoneSession(Some(r), [kind |-> "InternalError", at |-> "flush"])]
  /\ nextDeliveryId' = nextDeliveryId + 1
  /\ UNCHANGED <<vehicles, compartments, products, deliveries, assignments, now>>
  /\ UNCHANGED optimizer
  /\ UNCHANGED hooks

\* CreateCommit that also loads the assigned compartments.
CreateCommitLoading(s, reachable) ==
  /\ sessions[s].pc = "flushed"
  /\ LET r    == sessions[s].req[1]
         t    == sessions[s].totals[1]
         id   == sessions[s].pending[1].id
         row  == sessions[s].pending[1].row
         rows == NewAssignments(r, id)
     IN  IF reachable /\ delivery_compartment_unique(rows)
         THEN /\ deliveries' = deliveries @@ (id :> row)
              /\ assignments' = assignments \cup rows
              /\ compartments' =
                    [c \in DOMAIN compartments |->
                       IF \E a \in rows : a.compartment_id = c
                       THEN LET a == CHOOSE a \in rows : a.compartment_id = c
                            IN  [compartments[c] EXCEPT
                                   !.current_product_id = Some(a.fuel_product_id),
                                   !.current_volume_liters = a.assigned_volume_liters,
                                   !.last_product_id = Some(a.fuel_product_id)]
                       ELSE compartments[c]]
              /\ sessions' = [sessions EXCEPT ![s] =
                                DoneSession(Some(r), CreatedResponse(id, r, t, row))]
         ELSE /\ UNCHANGED <<deliveries, assignments, compartments>>
              /\ sessions' = [sessions EXCEPT ![s] =
                    DoneSession(Some(r), [kind |-> "InternalError", at |-> "commit"])]
  /\ UNCHANGED <<vehicles, products, now, nextDeliveryId>>
  /\ UNCHANGED optimizer
  /\ UNCHANGED hooks

\* The assignment rows are added and db.commit() ends the transaction: with
\* the database reachable and the constraints met everything becomes visible
\* at once, otherwise the commit raises and nothing is stored.
CreateCommit(s, reachable) ==
  /\ sessions[s].pc = "flushed"
  /\ LET r    == sessions[s].req[1]
         t    == sessions[s].totals[1]
         id   == sessions[s].pending[1].id
         row  == sessions[s].pending[1].row
         rows == NewAssignments(r, id)
     IN  IF reachable /\ delivery_compartment_unique(rows)
         THEN /\ deliveries' = deliveries @@ (id :> row)
              /\ assignments' = assignments \cup rows
              /\ sessions' = [sessions EXCEPT ![s] =
                                DoneSession(Some(r), CreatedResponse(id, r, t, row))]
         ELSE /\ UNCHANGED <<deliveries, assignments>>
              /\ sessions' = [sessions EXCEPT ![s] =
                    DoneSession(Some(r), [kind |-> "InternalError", at |-> "commit"])]
  /\ UNCHANGED <<vehicles, compartments, products, now, nextDeliveryId>>
  /\ UNCHANGED optimizer
  /\ UNCHANGED hooks

\* get_db: the session is closed once the response has been produced.
CloseSession(s) ==
  /\ sessions[s].pc = "done"
  /\ sessions' = [sessions EXCEPT ![s] = IdleSession]
  /\ UNCHANGED <<vehicles, compartments, products, deliveries, assignments,
                 now, nextDeliveryId>>
  /\ UNCHANGED optimizer
  /\ UNCHANGED hooks

----------------------------------------------------------------------------
(* Events outside the handlers *)

\* datetime.now() / datetime.utcnow() move on to the next day.
Tick ==
  /\ now < MaxDay
  /\ now' = now + 1
  /\ UNCHANGED <<vehicles, compartments, products, deliveries, assignments,
                 sessions, nextDeliveryId>>
  /\ UNCHANGED optimizer
  /\ UNCHANGED hooks

\* The provisioning side rewrites a tanker's certification columns.
CertificationEvent(v, dot, st) ==
  /\ v \in DOMAIN vehicles
  /\ <<vehicles[v].dot_certified, vehicles[v].certification_status>> # <<dot, st>>
  /\ vehicles' = [vehicles EXCEPT ![v].dot_certified = dot,
                                  ![v].certification_status = st]
  /\ UNCHANGED <<compartments, products, deliveries, assignments,
                 sessions, now, nextDeliveryId>>
  /\ UNCHANGED optimizer
  /\ UNCHANGED hooks

----------------------------------------------------------------------------
(* Delivery creation by one client, with certification events and the clock *)

Init ==
  /\ vehicles = InitVehicles
  /\ compartments = InitCompartments
  /\ products = InitProducts
  /\ deliveries = << >>
  /\ assignments = {}
  /\ sessions = (1 :> IdleSession)
  /\ now = 1
  /\ nextDeliveryId = 1
  /\ InitOptimizer
  /\ InitHooks

\* The certification columns the provisioning side writes.
CertificationStates ==
  { <<TRUE, "certified">>, <<TRUE, "expired">>, <<FALSE, "certified">> }

Next ==
  \/ \E s \in DOMAIN sessions : \E r \in Requests : CreateBegin(s, r)
  \/ \E s \in DOMAIN sessions : CreateFlush(s)
  \/ \E s \in DOMAIN sessions : \E reachable \in BOOLEAN : CreateCommit(s, reachable)
  \/ \E s \in DOMAIN sessions : CloseSession(s)
  \/ Tick
  \/ \E v \in DOMAIN vehicles : \E c \in CertificationStates :
        CertificationEvent(v, c[1], c[2])

Spec == Init /\ [][Next]_vars

----------------------------------------------------------------------------
(* update_delivery_status *)

\* DeliveryStatusUpdate
StatusUpdate(st, dep, compl, dist, fuel, inc) ==
  [delivery_status |-> st, actual_departure |-> dep, actual_completion |-> compl,
   distance_traveled_km |-> dist, fuel_consumed_liters |-> fuel,
   safety_incidents |-> inc]

\* Python truthiness of an Optional[Decimal]: None and 0 are false.
Truthy(x) == x # None /\ x[1] # 0

\* kg CO2 per litre diesel, in 1/100
Co2PerLiter == 264

\* The delivery row after the handler's assignments.
ApplyStatusUpdate(row, u, t) ==
  LET r1 == [row EXCEPT !.delivery_status = u.delivery_status]
      r2 == IF u.actual_departure # None
            THEN [r1 EXCEPT !.actual_departure = u.actual_departure] ELSE r1
      r3 == IF u.actual_completion # None
            THEN [r2 EXCEPT !.actual_completion = u.actual_completion] ELSE r2
      r4 == IF /\ u.actual_completion # None
               /\ Truthy(u.distance_traveled_km)
               /\ Truthy(u.fuel_consumed_liters)
            THEN [r3 EXCEPT
                    !.distance_traveled_km = u.distance_traveled_km,
                    !.fuel_consumed_liters = u.fuel_consumed_liters,
                    !.co2_emissions_kg =
                       Some(RoundDiv(u.fuel_consumed_liters[1] * Co2PerLiter, 100))]
            ELSE r3
      r5 == IF u.safety_incidents # None /\ u.safety_incidents[1] # << >>
            THEN [r4 EXCEPT !.safety_incidents = u.safety_incidents[1]] ELSE r4
  IN  [r5 EXCEPT !.updated_at = t]

\* CHECK actual_timing_valid
actual_timing_valid(row) ==
  \/ row.actual_departure = None
  \/ row.actual_completion = None
  \/ row.actual_departure[1] <= row.actual_completion[1]

\* The response body of a status update.
UpdatedResponse(d, row) ==
  [kind |-> "Updated",
   delivery_id |-> d,
   delivery_status |-> row.delivery_status,
   updated_at |-> row.updated_at,
   co2_emissions_kg |-> IF Truthy(row.co2_emissions_kg)
                        THEN row.co2_emissions_kg ELSE None,
   distance_traveled_km |-> IF Truthy(row.distance_traveled_km)
                            THEN row.distance_traveled_km ELSE None]

\* UpdateDeliveryStatus that also writes the new status to the delivery's
\* assignment rows.
UpdateDeliveryStatusCascading(s, d, u) ==
  /\ sessions[s].pc = "idle"
  /\ IF u.delivery_status \notin DeliveryStatuses
     THEN /\ sessions' = [sessions EXCEPT ![s] =
                 DoneSession(None, [kind |-> "ValidationError"])]
          /\ UNCHANGED <<deliveries, assignments>>
     ELSE IF d \notin DOMAIN deliveries
     THEN /\ sessions' = [sessions EXCEPT ![s] =
                 DoneSession(None, [kind |-> "NotFound", what |-> "delivery", id |-> d])]
          /\ UNCHANGED <<deliveries, assignments>>
     ELSE LET row == ApplyStatusUpdate(deliveries[d], u, now)
          IN  IF actual_timing_valid(row)
              THEN /\ deliveries' = [deliveries EXCEPT ![d] = row]
                   /\ assignments' =
                        { IF a.delivery_id = d
                          THEN [a EXCEPT !.assignment_status = u.delivery_status]
                          ELSE a : a \in assignments }
                   /\ sessions' = [sessions EXCEPT ![s] =
                         DoneSession(None, UpdatedResponse(d, row))]
              ELSE /\ UNCHANGED <<deliveries, assignments>>
                   /\ sessions' = [sessions EXCEPT ![s] =
                         DoneSession(None, [kind |-> "InternalError", at |-> "commit"])]
  /\ UNCHANGED <<vehicles, compartments, products, now, nextDeliveryId>>
  /\ UNCHANGED optimizer
  /\ UNCHANGED hooks

\* The whole handler: schema, lookup, assignments, commit.
UpdateDeliveryStatus(s, d, u) ==
  /\ sessions[s].pc = "idle"
  /\ IF u.delivery_status \notin DeliveryStatuses
     THEN /\ sessions' = [sessions EXCEPT ![s] =
                 DoneSession(None, [kind |-> "ValidationError"])]
          /\ UNCHANGED deliveries
     ELSE IF d \notin DOMAIN deliveries
     THEN /\ sessions' = [sessions EXCEPT ![s] =
                 DoneSession(None, [kind |-> "NotFound", what |-> "delivery", id |-> d])]
          /\ UNCHANGED deliveries
     ELSE LET row == ApplyStatusUpdate(deliveries[d], u, now)
          IN  IF actual_timing_valid(row)
              THEN /\ deliveries' = [deliveries EXCEPT ![d] = row]
                   /\ sessions' = [sessions EXCEPT ![s] =
                         DoneSession(None, UpdatedResponse(d, row))]
              ELSE /\ UNCHANGED deliveries
                   /\ sessions' = [sessions EXCEPT ![s] =
                         DoneSession(None, [kind |-> "InternalError", at |-> "commit"])]
  /\ UNCHANGED <<vehicles, compartments, products, assignments, now, nextDeliveryId>>
  /\ UNCHANGED optimizer
  /\ UNCHANGED hooks

----------------------------------------------------------------------------
(* Status updates on deliveries that creation has stored *)

\* The requests whose deliveries are stored when the updates start, in the
\* order of their ids; each was created on day 1.
CreationLog ==
  << Request(1, 1, << Assign(1, 2, 10000), Assign(3, 1, 8000) >>) >>

\* The totals the handler computed for a logged request.
LoggedTotals(r) ==
  [tanker_id |-> r.tanker_vehicle_id,
   total_capacity_liters |-> InitVehicles[r.tanker_vehicle_id].total_capacity_liters,
   total_volume |-> TotalVolume(r.compartment_assignments,
                                Len(r.compartment_assignments)),
   total_weight |-> TotalWeight(r.compartment_assignments,
                                Len(r.compartment_assignments))]

\* The status updates the clients send.
StatusInputs == DeliveryStatuses \cup {"delivered"}

DepartureInputs == { None, Some(2) }

CompletionInputs == { None, Some(1), Some(3) }

DistanceInputs == { None, Some(0), Some(4520) }

FuelInputs == { None, Some(0), Some(1250) }

IncidentInputs == { None, Some(<< "spill" >>) }

StatusUpdates ==
  { StatusUpdate(st, dep, compl, dist, fuel, inc) :
      st \in StatusInputs, dep \in DepartureInputs, compl \in CompletionInputs,
      dist \in DistanceInputs, fuel \in FuelInputs, inc \in IncidentInputs }

InitLife ==
  /\ vehicles = InitVehicles
  /\ compartments = InitCompartments
  /\ products = InitProducts
  /\ deliveries = [d \in DOMAIN CreationLog |->
                     NewDelivery(CreationLog[d], LoggedTotals(CreationLog[d]), 1)]
  /\ assignments = UNION { NewAssignments(CreationLog[d], d) : d \in DOMAIN CreationLog }
  /\ sessions = (1 :> IdleSession)
  /\ now = 1
  /\ nextDeliveryId = Len(CreationLog) + 1
  /\ InitOptimizer
  /\ InitHooks

NextLife ==
  \/ \E s \in DOMAIN sessions : \E d \in 1..(Len(CreationLog) + 1) :
        \E u \in StatusUpdates : UpdateDeliveryStatus(s, d, u)
  \/ \E s \in DOMAIN sessions : CloseSession(s)
  \/ Tick

SpecLife == InitLife /\ [][NextLife]_vars

----------------------------------------------------------------------------
(* Status updates that carry telemetry *)

\* Updates with and without a completion timestamp, a distance and a fuel
\* figure (0 included), to a non-final and to the final status.
TelemetryUpdates ==
  { StatusUpdate(st, None, compl, dist, fuel, None) :
      st \in {"loading", "in_transit", "completed"},
      compl \in {None, Some(1), Some(2)},
      dist \in DistanceInputs, fuel \in FuelInputs \cup {Some(2001)} }

NextTelemetry ==
  \/ \E s \in DOMAIN sessions : \E u \in TelemetryUpdates :
        UpdateDeliveryStatus(s, 1, u)
  \/ \E s \in DOMAIN sessions : CloseSession(s)
  \/ Tick

SpecTelemetry == InitLife /\ [][NextTelemetry]_vars

----------------------------------------------------------------------------
(* Delivery creation by two clients whose handlers interleave *)

InitConc ==
  /\ vehicles = InitVehicles
  /\ compartments = InitCompartments
  /\ products = InitProducts
  /\ deliveries = << >>
  /\ assignments = {}
  /\ sessions = (1 :> IdleSession) @@ (2 :> IdleSession)
  /\ now = 1
  /\ nextDeliveryId = 1
  /\ InitOptimizer
  /\ InitHooks

NextConc ==
  \/ \E s \in DOMAIN sessions : \E r \in ConcurrentRequests : CreateBegin(s, r)
  \/ \E s \in DOMAIN sessions : CreateFlush(s)
  \/ \E s \in DOMAIN sessions : \E reachable \in BOOLEAN : CreateCommit(s, reachable)
  \/ \E s \in DOMAIN sessions : CloseSession(s)
  \/ Tick

SpecConc == InitConc /\ [][NextConc]_vars

----------------------------------------------------------------------------
(* The read-only endpoints: validate-contamination and cleaning-estimate *)

\* get_cleaning_estimate: "time_required" and "cost_estimate" (USD) of the
\* default estimate and of the one for "more intensive cleaning".
BaselineTimeRequired == 120

BaselineCostEstimate == 450

IntensiveTimeRequired == 180

IntensiveCostEstimate == 675

\* ValidateContamination that flags the compartments it found at risk.
ValidateContaminationMarking(s, as) ==
  /\ sessions[s].pc = "idle"
  /\ sessions' = [sessions EXCEPT ![s] =
        DoneSession(Some([endpoint |-> "validate-contamination",
                          compartment_assignments |-> as]),
                    IF \A i \in 1..Len(as) : validate_volume(as[i].assigned_volume_liters)
                    THEN validate_cross_contamination(as)
                    ELSE [kind |-> "ValidationError"])]
  /\ compartments' =
        [c \in DOMAIN compartments |->
           IF \E i \in 1..Len(as) :
                 /\ as[i].compartment_id = c
                 /\ as[i].fuel_product_id \in DOMAIN products
                 /\ ContaminationCheck(as[i]).contamination_risk
           THEN [compartments[c] EXCEPT !.requires_cleaning = TRUE]
           ELSE compartments[c]]
  /\ UNCHANGED <<vehicles, products, deliveries, assignments, now, nextDeliveryId>>
  /\ UNCHANGED optimizer
  /\ UNCHANGED hooks

\* POST /validate-contamination/: the body is a list of
\* CompartmentAssignmentRequest, the answer the list of checks or the error
\* the loop raised.
ValidateContamination(s, as) ==
  /\ sessions[s].pc = "idle"
  /\ sessions' = [sessions EXCEPT ![s] =
        DoneSession(Some([endpoint |-> "validate-contamination",
                          compartment_assignments |-> as]),
                    IF \A i \in 1..Len(as) : validate_volume(as[i].assigned_volume_liters)
                    THEN validate_cross_contamination(as)
                    ELSE [kind |-> "ValidationError"])]
  /\ UNCHANGED <<vehicles, compartments, products, deliveries, assignments,
                 now, nextDeliveryId>>
  /\ UNCHANGED optimizer
  /\ UNCHANGED hooks

\* The body of GET /cleaning-estimate/{compartment_id}?target_product_id=
get_cleaning_estimate(c, p) ==
  IF c \notin DOMAIN compartments
    THEN [kind |-> "NotFound", what |-> "compartment", id |-> c]
  ELSE IF p \notin DOMAIN products
    THEN [kind |-> "NotFound", what |-> "fuel_product", id |-> p]
  ELSE LET last      == compartments[c].last_product_id
           target    == products[p]
           intensive ==
             /\ last # None
             /\ products[last[1]].product_code \in target.cleaning_required_after
             /\ products[last[1]].fuel_type # target.fuel_type
       IN  [kind |-> "CleaningEstimate",
            compartment_id |-> c,
            current_product |->
               IF last # None THEN Some(products[last[1]].product_code) ELSE None,
            target_product |-> target.product_code,
            time_required |->
               IF intensive THEN IntensiveTimeRequired ELSE BaselineTimeRequired,
            cost_estimate |->
               IF intensive THEN IntensiveCostEstimate ELSE BaselineCostEstimate,
            procedure |->
               IF intensive THEN "comprehensive_decontamination"
               ELSE "steam_cleaning_with_neutralization"]

GetCleaningEstimate(s, c, p) ==
  /\ sessions[s].pc = "idle"
  /\ sessions' = [sessions EXCEPT ![s] =
        DoneSession(Some([endpoint |-> "cleaning-estimate",
                          compartment_id |-> c, target_product_id |-> p]),
                    get_cleaning_estimate(c, p))]
  /\ UNCHANGED <<vehicles, compartments, products, deliveries, assignments,
                 now, nextDeliveryId>>
  /\ UNCHANGED optimizer
  /\ UNCHANGED hooks

\* last_product_id of a compartment: NULL or a fuel_products id.
LastProducts == { None } \cup { Some(p) : p \in DOMAIN InitProducts }

\* The assignment lists sent to validate-contamination.
QueryAssignments ==
  { << Assign(c, p, 1000) >> : c \in {1, 2}, p \in DOMAIN InitProducts } \cup
  { << Assign(1, 1, 1000), Assign(2, 4, 2000) >>,
    << Assign(2, 3, 1000), Assign(1, 2, 12000) >>,
    << Assign(1, 4, 50001) >>,
    << Assign(5, 1, 1000) >>,
    << Assign(1, 9, 1000) >>,
    << >> }

InitQuery ==
  /\ vehicles = InitVehicles
  /\ products = InitProducts
  /\ \E l1 \in LastProducts : \E l2 \in LastProducts :
        compartments = [InitCompartments EXCEPT ![1].last_product_id = l1,
                                                ![2].last_product_id = l2]
  /\ deliveries = << >>
  /\ assignments = {}
  /\ sessions = (1 :> IdleSession)
  /\ now = 1
  /\ nextDeliveryId = 1
  /\ InitOptimizer
  /\ InitHooks

NextQuery ==
  \/ \E s \in DOMAIN sessions : \E as \in QueryAssignments :
        ValidateContamination(s, as)
  \/ \E s \in DOMAIN sessions : \E c \in {1, 2, 5} : \E p \in DOMAIN InitProducts \cup {9} :
        GetCleaningEstimate(s, c, p)
  \/ \E s \in DOMAIN sessions : CloseSession(s)

SpecQuery == InitQuery /\ [][NextQuery]_vars

----------------------------------------------------------------------------
(* The solver payload, and every operation of the router on one connection *)

\* UN hazard classes a fuel_products row carries (hazmat_class, String(10)).
HazmatClasses == { "3", "9" }

\* One entry of "shipments", built from one assignment row: the weight is
\* int(calculated_weight_kg), in kg; the volume, assigned_volume_liters / 1000,
\* is kept in 1/1000 of a cubic metre.
VroomShipment(a) ==
  [amount |-> << a.calculated_weight_kg \div 100, a.assigned_volume_liters, 1 >>,
   skills |-> { "hazmat_class_3", "tanker_vehicle", "fuel_delivery",
                "fuel_type_" \o products[a.fuel_product_id].fuel_type },
   priority |-> 5]

\* The entry of "vehicles": int(total_capacity_liters * 0.8), the volume in
\* 1/1000 of a cubic metre, compartment_count.
VroomVehicle(v) ==
  [id |-> v,
   capacity |-> << (vehicles[v].total_capacity_liters * 8) \div 10,
                   vehicles[v].total_capacity_liters,
                   vehicles[v].compartment_count >>,
   skills |-> { "hazmat_class_3", "tanker_vehicle", "fuel_delivery" }]

\* The body of GET /{delivery_id}/vroom-integration.
get_vroom_integration_payload(d) ==
  IF d \notin DOMAIN deliveries
    THEN [kind |-> "NotFound", what |-> "delivery", id |-> d]
  ELSE LET rows == { a \in assignments : a.delivery_id = d }
       IN  [kind |-> "Payload",
            delivery_id |-> d,
            shipments |-> [i \in 1..Cardinality(rows) |->
                             VroomShipment(CHOOSE a \in rows : a.position = i)],
            vehicles |-> << VroomVehicle(deliveries[d].tanker_vehicle_id) >>,
            optimization_ready |-> TRUE,
            integration_timestamp |-> now]

GetVroomIntegrationPayload(s, d) ==
  /\ sessions[s].pc = "idle"
  /\ sessions' = [sessions EXCEPT ![s] =
        DoneSession(Some([endpoint |-> "vroom-integration", delivery_id |-> d]),
                    get_vroom_integration_payload(d))]
  /\ UNCHANGED <<vehicles, compartments, products, deliveries, assignments,
                 now, nextDeliveryId>>
  /\ UNCHANGED optimizer
  /\ UNCHANGED hooks

\* The creation requests of this client: an accepted one and one refused at
\* each stage.
CoreRequests ==
  { Request(1, 1, << Assign(1, 1, 9000) >>),
    Request(1, 1, << Assign(2, 1, 5000) >>),
    Request(1, 1, << Assign(1, 1, 12000) >>),
    Request(1, 1, << Assign(5, 1, 1000) >>),
    Request(1, 1, << Assign(1, 9, 12000) >>),
    Request(1, 1, << >>),
    Request(1, 3, << Assign(1, 1, 9000) >>),
    Request(2, 1, << Assign(1, 1, 9000) >>) }

\* Its status updates: to completion with telemetry, an undeclared status,
\* and a completion dated before the departure.
CoreUpdates ==
  { StatusUpdate("completed", None, Some(2), Some(4520), Some(1250), None),
    StatusUpdate("delivered", None, None, None, None, None),
    StatusUpdate("completed", Some(2), Some(1), None, None, None) }

\* Its contamination checks.
CoreValidations ==
  { << Assign(1, 1, 1000) >>,
    << Assign(2, 1, 1000) >>,
    << Assign(2, 3, 1000), Assign(1, 2, 12000) >>,
    << Assign(5, 1, 1000) >>,
    << Assign(1, 9, 1000) >> }

InitCore ==
  /\ vehicles = InitVehicles
  /\ compartments = InitCompartments
  /\ \E h \in HazmatClasses : products = [InitProducts EXCEPT ![1].hazmat_class = h]
  /\ deliveries = << >>
  /\ assignments = {}
  /\ sessions = (1 :> IdleSession)
  /\ now = 1
  /\ nextDeliveryId = 1
  /\ InitOptimizer
  /\ InitHooks

NextCore ==
  \/ \E s \in DOMAIN sessions : \E r \in CoreRequests : CreateBegin(s, r)
  \/ \E s \in DOMAIN sessions : CreateFlush(s)
  \/ \E s \in DOMAIN sessions : \E reachable \in BOOLEAN : CreateCommit(s, reachable)
  \/ \E s \in DOMAIN sessions : \E d \in 1..MaxDeliveryId : \E u \in CoreUpdates :
        UpdateDeliveryStatus(s, d, u)
  \/ \E s \in DOMAIN sessions : \E as \in CoreValidations :
        ValidateContamination(s, as)
  \/ \E s \in DOMAIN sessions : \E c \in {1, 2, 5} : \E p \in {1, 4, 9} :
        GetCleaningEstimate(s, c, p)
  \/ \E s \in DOMAIN sessions : \E d \in 1..MaxDeliveryId :
        GetVroomIntegrationPayload(s, d)
  \/ \E s \in DOMAIN sessions : CloseSession(s)
  \/ Tick

SpecCore == InitCore /\ [][NextCore]_vars

----------------------------------------------------------------------------
(* Route optimization through the VROOM solver (api/v1/optimization.py) *)

\* The optimization runs the tables hold at most.
MaxRuns == 2

\* A route of a solver response: its vehicle and the types of its steps.
Route(v, steps) == [vehicle |-> v, steps |-> steps]

\* The "routes" of the responses.
RouteLists ==
  { << >>,
    << Route(1, << "start", "job", "end" >>) >>,
    << Route(1, << "start", "job", "end" >>), Route(2, << >>) >> }

\* What the POST to the solver comes back with: the transport outcome, the
\* HTTP status, and of the body the "code" (None: the key is missing) and
\* the "routes".
SolverResponse(transport, http, code, routes) ==
  [transport |-> transport, http |-> http, code |-> code, routes |-> routes]

SolverResponses ==
  { SolverResponse("ok", 200, code, routes) :
      code \in { None, Some(0), Some(1), Some(2) }, routes \in RouteLists }
  \cup { SolverResponse("ok", 500, None, << >>),
         SolverResponse("timeout", 0, None, << >>),
         SolverResponse("connect_error", 0, None, << >>) }

\* VROOMService.optimize: the body it returns, or the HTTPException it raises.
optimize(resp) ==
  IF resp.transport = "timeout" THEN [kind |-> "HTTPException", status |-> 408]
  ELSE IF resp.transport = "connect_error" THEN [kind |-> "HTTPException", status |-> 503]
  ELSE IF resp.http # 200 THEN [kind |-> "HTTPException", status |-> 500]
  ELSE IF (IF resp.code = None THEN 0 ELSE resp.code[1]) # 0
    THEN [kind |-> "HTTPException", status |-> 500]
  ELSE [kind |-> "result", code |-> resp.code, routes |-> resp.routes]

\* status_mapping.get(optimization_code, 'error'), the code read with
\* vroom_response.get('code', -1)
OptimizationStatus(code) ==
  LET optimization_code == IF code = None THEN -1 ELSE code[1]
  IN  CASE optimization_code = 0 -> "completed"
        [] optimization_code = 1 -> "completed_with_warnings"
        [] optimization_code = 2 -> "error"
        [] optimization_code = 3 -> "timeout"
        [] optimization_code = 4 -> "infeasible"
        [] OTHER -> "error"

\* The optimization_runs row of a result.
RunRow(result, t) ==
  [timestamp |-> t,
   status |-> OptimizationStatus(result.code),
   total_routes |-> Len(result.routes),
   raw_response |-> [code |-> result.code, routes |-> result.routes]]

\* The route_summaries rows of a result's routes, in order.
SummaryRows(runId, routes) ==
  [i \in 1..Len(routes) |->
     [optimization_run_id |-> runId, vehicle_id |-> routes[i].vehicle]]

\* The route_steps rows of the first n routes; the summary of route i got
\* the id base + i.
RECURSIVE StepRows(_, _, _)
StepRows(base, routes, n) ==
  IF n = 0 THEN << >>
  ELSE StepRows(base, routes, n - 1) \o
       [k \in 1..Len(routes[n].steps) |->
          [route_summary_id |-> base + n,
           vehicle_id |-> routes[n].vehicle,
           step_order |-> k - 1,
           step_type |-> routes[n].steps[k]]]

\* POST /optimization/: the solver is called, its result stored by
\* store_optimization_results and returned.  An exception of optimize ends
\* the handler with a 500; a failure of the storage is logged and the result
\* returned without a run id.
RunDirectOptimization(resp, reachable) ==
  /\ Len(optimization_runs) < MaxRuns
  /\ LET result == optimize(resp)
         runId  == Len(optimization_runs) + 1
         stores == result.kind = "result" /\ reachable
         routed == stores /\ result.code = Some(0)
     IN  /\ optimization_runs' =
               IF stores THEN Append(optimization_runs, RunRow(result, now))
               ELSE optimization_runs
         /\ route_summaries' =
               IF routed THEN route_summaries \o SummaryRows(runId, result.routes)
               ELSE route_summaries
         /\ route_steps' =
               IF routed
               THEN route_steps \o
                    StepRows(Len(route_summaries), result.routes, Len(result.routes))
               ELSE route_steps
         /\ optimization_reply' =
               IF result.kind # "result"
               THEN Some([kind |-> "InternalError", status |-> 500])
               ELSE Some([kind |-> "Optimized", code |-> result.code,
                          routes |-> result.routes,
                          optimization_run_id |-> IF stores THEN Some(runId) ELSE None])
  /\ UNCHANGED <<vehicles, compartments, products, deliveries, assignments,
                 sessions, now, nextDeliveryId>>
  /\ UNCHANGED hooks

NextOptimize ==
  \/ \E resp \in SolverResponses : \E reachable \in BOOLEAN :
        RunDirectOptimization(resp, reachable)
  \/ Tick

SpecOptimize == Init /\ [][NextOptimize]_vars

----------------------------------------------------------------------------
(* UAT intent detection of the session hook (uat-archive/hooks) *)

\* The words of a message at most.
MaxWords == 3

\* A message is the sequence of its characters.
Uppercase ==
  << "A", "B", "C", "D", "E", "F", "G", "H", "I", "J", "K", "L", "M",
     "N", "O", "P", "Q", "R", "S", "T", "U", "V", "W", "X", "Y", "Z" >>

Lowercase ==
  << "a", "b", "c", "d", "e", "f", "g", "h", "i", "j", "k", "l", "m",
     "n", "o", "p", "q", "r", "s", "t", "u", "v", "w", "x", "y", "z" >>

\* str.lower() on one character.
Lower(c) ==
  IF \E i \in 1..Len(Uppercase) : Uppercase[i] = c
  THEN Lowercase[CHOOSE i \in 1..Len(Uppercase) : Uppercase[i] = c]
  ELSE c

\* Python's "kw in text" on strings.
Contains(text, kw) ==
  \E i \in 0..(Len(text) - Len(kw)) : \A k \in 1..Len(kw) : text[i + k] = kw[k]

\* The keyword 'uat'.
UatKeyword == << "u", "a", "t" >>

\* scenario_map, in the order of the dict literal.
scenario_map ==
  << << << "l", "o", "g", "i", "n" >>, "login-flow" >>,
     << << "l", "o", "g", "i", "n", "-", "f", "l", "o", "w" >>, "login-flow" >>,
     << << "a", "u", "t", "h" >>, "login-flow" >>,
     << << "a", "u", "t", "h", "e", "n", "t", "i", "c", "a", "t", "i", "o", "n" >>, "login-flow" >>,
     << << "v", "e", "h", "i", "c", "l", "e" >>, "vehicle-crud" >>,
     << << "v", "e", "h", "i", "c", "l", "e", "-", "c", "r", "u", "d" >>, "vehicle-crud" >>,
     << << "c", "r", "u", "d" >>, "vehicle-crud" >>,
     << << "c", "r", "e", "a", "t", "e" >>, "vehicle-crud" >>,
     << << "u", "p", "d", "a", "t", "e" >>, "vehicle-crud" >>,
     << << "d", "e", "l", "e", "t", "e" >>, "vehicle-crud" >>,
     << << "e", "r", "r", "o", "r" >>, "error-handling" >>,
     << << "e", "r", "r", "o", "r", "-", "h", "a", "n", "d", "l", "i", "n", "g" >>, "error-handling" >>,
     << << "h", "a", "n", "d", "l", "i", "n", "g" >>, "error-handling" >>,
     << << "v", "a", "l", "i", "d", "a", "t", "i", "o", "n" >>, "error-handling" >> >>

\* detect_uat_intent without the test for 'uat'.
detect_uat_intent_any_message(message) ==
  LET message_lower == [i \in 1..Len(message) |-> Lower(message[i])]
      hits == { k \in 1..Len(scenario_map) : Contains(message_lower, scenario_map[k][1]) }
  IN  IF hits = {} THEN << FALSE, None >>
      ELSE << TRUE, Some(scenario_map[CHOOSE k \in hits : \A j \in hits : k <= j][2]) >>

\* UATSessionManager.detect_uat_intent: (is_uat, scenario_name).
detect_uat_intent(message) ==
  LET message_lower == [i \in 1..Len(message) |-> Lower(message[i])]
      hits == { k \in 1..Len(scenario_map) : Contains(message_lower, scenario_map[k][1]) }
  IN  IF ~Contains(message_lower, UatKeyword) THEN << FALSE, None >>
      ELSE IF hits = {} THEN << FALSE, None >>
      ELSE << TRUE, Some(scenario_map[CHOOSE k \in hits : \A j \in hits : k <= j][2]) >>

\* The words the messages are made of.
Words ==
  { << "U", "A", "T" >>,
    << "R", "u", "n" >>,
    << "L", "O", "G", "I", "N" >>,
    << "v", "e", "h", "i", "c", "l", "e" >>,
    << "v", "a", "l", "i", "d", "a", "t", "i", "o", "n" >>,
    << "s", "i", "t", "u", "a", "t", "i", "o", "n" >> }

\* The messages of at most n words, the words separated by a blank.
RECURSIVE Phrases(_)
Phrases(n) ==
  IF n = 0 THEN { << >> }
  ELSE Phrases(n - 1) \cup Words
         \cup { p \o << " " >> \o w : p \in Phrases(n - 1) \ { << >> }, w \in Words }

\* The hook is handed a message.
ReceiveMessage(m) ==
  /\ uat_message' = m
  /\ uat_intent' = None
  /\ UNCHANGED <<vehicles, compartments, products, deliveries, assignments,
                 sessions, now, nextDeliveryId>>
  /\ UNCHANGED optimizer

\* The hook runs the detection on its message.
DetectUatIntent ==
  /\ uat_intent = None
  /\ uat_intent' = Some(detect_uat_intent(uat_message))
  /\ UNCHANGED uat_message
  /\ UNCHANGED <<vehicles, compartments, products, deliveries, assignments,
                 sessions, now, nextDeliveryId>>
  /\ UNCHANGED optimizer

NextUat ==
  \/ \E m \in Phrases(MaxWords) : ReceiveMessage(m)
  \/ DetectUatIntent

SpecUat == Init /\ [][NextUat]_vars

----------------------------------------------------------------------------
(* Properties of the delivery lifecycle, checked under SpecLife *)

\* The declared sequence of delivery states.
DeliverySequence ==
  << "planned", "dispatched", "loading", "in_transit", "unloading", "completed" >>

\* The position of a state in the declared sequence (cancelled comes last).
Rank(st) ==
  IF st = "cancelled" THEN Len(DeliverySequence) + 1
  ELSE CHOOSE i \in 1..Len(DeliverySequence) : DeliverySequence[i] = st

TerminalDelivery == { "completed", "cancelled" }

TerminalAssignment == { "completed", "cancelled" }

\* Session s has just answered a status update with a success response.
UpdateSucceeded(s) ==
  /\ sessions[s].pc = "idle"
  /\ sessions'[s].pc = "done"
  /\ sessions'[s].req = None
  /\ sessions'[s].resp[1].kind = "Updated"

\* Session s has just answered a status update with an error.
UpdateFailed(s) ==
  /\ sessions[s].pc = "idle"
  /\ sessions'[s].pc = "done"
  /\ sessions'[s].req = None
  /\ sessions'[s].resp[1].kind # "Updated"

\* C1: a status update succeeds only if the requested status is the immediate
\* successor of the delivery's current status in the declared sequence, or is
\* cancelled; a forward skip such as planned -> in_transit is refused.
C1_OnlyImmediateSuccessor ==
  [][\A s \in DOMAIN sessions :
        UpdateSucceeded(s) =>
          LET d    == sessions'[s].resp[1].delivery_id
              cur  == deliveries[d].delivery_status
              want == sessions'[s].resp[1].delivery_status
          IN  \/ want = "cancelled"
              \/ /\ Rank(cur) < Len(DeliverySequence)
                 /\ want = DeliverySequence[Rank(cur) + 1]]_vars

\* C2: a delivery's status never returns to an earlier state of the declared
\* sequence and never leaves completed or cancelled, and an update that is
\* refused leaves the stored deliveries as they were.
C2_ForwardOnly ==
  [][/\ \A d \in DOMAIN deliveries :
           /\ Rank(deliveries'[d].delivery_status) >= Rank(deliveries[d].delivery_status)
           /\ deliveries[d].delivery_status \in TerminalDelivery
                => deliveries'[d].delivery_status = deliveries[d].delivery_status
     /\ \A s \in DOMAIN sessions :
           UpdateFailed(s) => deliveries' = deliveries /\ assignments' = assignments]_vars

\* C3: no state has a cancelled delivery with an assignment that is not in a
\* terminal state.
C3_CancelCascades ==
  \A d \in DOMAIN deliveries :
     deliveries[d].delivery_status = "cancelled" =>
        \A a \in assignments :
           a.delivery_id = d => a.assignment_status \in TerminalAssignment

\* C4: cancelling a delivery that is already cancelled succeeds and leaves the
\* stored delivery and its assignments exactly as they were.
C4_CancelIdempotent ==
  [][\A s \in DOMAIN sessions :
        /\ UpdateSucceeded(s)
        /\ sessions'[s].resp[1].delivery_status = "cancelled"
        /\ deliveries[sessions'[s].resp[1].delivery_id].delivery_status = "cancelled"
        => /\ deliveries' = deliveries
           /\ assignments' = assignments]_vars

----------------------------------------------------------------------------
(* Properties of delivery creation, checked under Spec and SpecConc *)

\* Session s has just run a creation request up to its first write.
CreateAnswered(s) ==
  /\ sessions[s].pc = "idle"
  /\ sessions'[s].pc \in {"validated", "done"}
  /\ sessions'[s].req # None

\* Session s has just finished a creation request.
CreateFinished(s) ==
  /\ sessions[s].pc # "done"
  /\ sessions'[s].pc = "done"
  /\ sessions'[s].req # None

\* The committed tables are what they were.
NothingPersisted ==
  deliveries' = deliveries /\ assignments' = assignments

AssignmentsOf(d) == { a \in assignments : a.delivery_id = d }

\* C5: no state holds two live deliveries of the same tanker that were both
\* accepted with an assignment to the same compartment.
C5_CompartmentAssignedOnce ==
  \A d1 \in DOMAIN deliveries : \A d2 \in DOMAIN deliveries :
     /\ d1 # d2
     /\ deliveries[d1].tanker_vehicle_id = deliveries[d2].tanker_vehicle_id
     /\ deliveries[d1].delivery_status \notin TerminalDelivery
     /\ deliveries[d2].delivery_status \notin TerminalDelivery
     => \A a1 \in AssignmentsOf(d1) : \A a2 \in AssignmentsOf(d2) :
           a1.compartment_id # a2.compartment_id

\* Every stored delivery has exactly the assignments of its request, and
\* every stored assignment belongs to a stored delivery.
DeliveryComplete ==
  /\ \A d \in DOMAIN deliveries :
        /\ deliveries[d].compartments_used >= 1
        /\ Cardinality(AssignmentsOf(d)) = deliveries[d].compartments_used
  /\ \A a \in assignments : a.delivery_id \in DOMAIN deliveries

\* A creation that succeeds stores the delivery as planned with all its
\* assignments as assigned; one that fails at any step stores nothing.
AllOrNothing ==
  \A s \in DOMAIN sessions :
     CreateFinished(s) =>
        LET resp == sessions'[s].resp[1]
            r    == sessions'[s].req[1]
        IN  IF resp.kind = "Created"
            THEN /\ resp.delivery_id \notin DOMAIN deliveries
                 /\ DOMAIN deliveries' = DOMAIN deliveries \cup {resp.delivery_id}
                 /\ deliveries'[resp.delivery_id].delivery_status = "planned"
                 /\ \A d \in DOMAIN deliveries : deliveries'[d] = deliveries[d]
                 /\ assignments \subseteq assignments'
                 /\ Cardinality(assignments' \ assignments)
                       = Len(r.compartment_assignments)
                 /\ \A a \in assignments' \ assignments :
                       /\ a.delivery_id = resp.delivery_id
                       /\ a.assignment_status = "assigned"
            ELSE NothingPersisted

\* C6: creation is atomic: in every committed state a delivery exists iff all
\* the assignments of its request exist (compartments_used is their number);
\* on success the delivery is planned and its assignments assigned, and a
\* failure at any step leaves neither the delivery nor any assignment stored.
C6_AtomicCreation == [](DeliveryComplete) /\ [][AllOrNothing]_vars

\* A commit failed after an earlier two-compartment delivery was stored.
C6_Witness ==
  \E s \in DOMAIN sessions :
     /\ sessions[s].pc = "done"
     /\ sessions[s].resp[1].kind = "InternalError"
     /\ sessions[s].resp[1].at = "commit"
     /\ \E d \in DOMAIN deliveries : deliveries[d].compartments_used = 2

C8_HazmatGate ==
  \A d \in DOMAIN deliveries :
     (\E a \in AssignmentsOf(d) : products[a.fuel_product_id].hazmat_class # "")
        => vehicles[deliveries[d].tanker_vehicle_id].hazmat_certification

\* The request of session s reached the handler, its tanker was found and
\* passed the compliance gate.
GatePassed(r) ==
  /\ Len(r.compartment_assignments) # 0
  /\ Len(r.compartment_assignments) <= MaxAssignments
  /\ \A i \in 1..Len(r.compartment_assignments) :
        /\ r.compartment_assignments[i].assigned_volume_liters > 0
        /\ \A j \in 1..Len(r.compartment_assignments) :
              r.compartment_assignments[i].compartment_id
                 = r.compartment_assignments[j].compartment_id => i = j
  /\ r.tanker_vehicle_id \in DOMAIN vehicles
  /\ vehicles[r.tanker_vehicle_id].project_id = r.project_id
  /\ vehicles[r.tanker_vehicle_id].dot_certified
  /\ vehicles[r.tanker_vehicle_id].certification_status = "certified"

\* The compartment and the product of an assignment exist.
Known(a) ==
  a.compartment_id \in DOMAIN compartments /\ a.fuel_product_id \in DOMAIN products

\* The assignment asks for more than its compartment holds.
Overflows(a) ==
  /\ a.compartment_id \in DOMAIN compartments
  /\ a.assigned_volume_liters > compartments[a.compartment_id].capacity_liters

\* The capacity error an overflowing assignment is to be answered with.
OverflowReport(a) ==
  [kind |-> "CapacityExceeded",
   compartment_id |-> a.compartment_id,
   compartment_capacity |-> compartments[a.compartment_id].capacity_liters,
   requested_volume |-> a.assigned_volume_liters,
   overflow_amount |-> a.assigned_volume_liters
                          - compartments[a.compartment_id].capacity_liters]

\* Assignment i is the first of the list to fail a check, and fails by overflow.
FirstOverflow(as, i) ==
  /\ Known(as[i]) /\ Overflows(as[i])
  /\ \A j \in 1..(i - 1) : Known(as[j]) /\ ~Overflows(as[j])

\* C9 as stated: past the gate and with every compartment and product known,
\* a volume above the compartment's capacity always yields CapacityExceeded
\* with the compartment id, its capacity, the volume and the overflow, and
\* nothing is persisted.
C9_AsStated ==
  [][\A s \in DOMAIN sessions :
        CreateAnswered(s) =>
          LET as == sessions'[s].req[1].compartment_assignments
          IN  /\ GatePassed(sessions'[s].req[1])
              /\ \A i \in 1..Len(as) : Known(as[i])
              => \A i \in 1..Len(as) :
                    FirstOverflow(as, i) =>
                       /\ sessions'[s].pc = "done"
                       /\ sessions'[s].resp[1] = OverflowReport(as[i])
                       /\ NothingPersisted]_vars

\* C9 amended: a request with a volume above its compartment's capacity is
\* always refused and nothing is persisted; past the gate and with every
\* compartment and product known, the refusal is the CapacityExceeded of the
\* first such assignment when no volume of the request is above the schema's
\* 50000 litres, and a ValidationError otherwise.
C9_CapacityExceeded ==
  [][\A s \in DOMAIN sessions :
        CreateAnswered(s) =>
          LET as == sessions'[s].req[1].compartment_assignments
          IN  /\ (\E i \in 1..Len(as) : Overflows(as[i]))
                 => /\ sessions'[s].pc = "done"
                    /\ sessions'[s].resp[1].kind \in
                         {"ValidationError", "NotFound", "ComplianceViolation",
                          "CapacityExceeded", "ContaminationRisk"}
                    /\ NothingPersisted
              /\ /\ GatePassed(sessions'[s].req[1])
                 /\ \A i \in 1..Len(as) : Known(as[i])
                 => \A i \in 1..Len(as) :
                       FirstOverflow(as, i) =>
                          sessions'[s].resp[1] =
                             IF \A j \in 1..Len(as) :
                                   as[j].assigned_volume_liters <= MaxReasonableVolume
                             THEN OverflowReport(as[i])
                             ELSE [kind |-> "ValidationError"]]_vars

\* An overflow in the second assignment is reported with its figures.
C9_Witness ==
  \E s \in DOMAIN sessions :
     /\ sessions[s].pc = "done"
     /\ sessions[s].req # None
     /\ Len(sessions[s].req[1].compartment_assignments) = 2
     /\ sessions[s].resp[1].kind = "CapacityExceeded"
     /\ sessions[s].resp[1].overflow_amount = 2000
     /\ deliveries = << >>

\* The compartment's last product is in the requested product's
\* cross_contamination_risk.
Risky(a) ==
  /\ Known(a)
  /\ compartments[a.compartment_id].last_product_id # None
  /\ products[compartments[a.compartment_id].last_product_id[1]].product_code
        \in products[a.fuel_product_id].cross_contamination_risk

----------------------------------------------------------------------------
(* Properties of the contamination check and the cleaning estimate *)

\* Session s has just been answered by validate-contamination.
ValidateAnswered(s) ==
  /\ sessions[s].pc = "idle"
  /\ sessions'[s].pc = "done"
  /\ sessions'[s].req # None
  /\ sessions'[s].req[1].endpoint = "validate-contamination"

\* Session s has just been answered by cleaning-estimate.
EstimateAnswered(s) ==
  /\ sessions[s].pc = "idle"
  /\ sessions'[s].pc = "done"
  /\ sessions'[s].req # None
  /\ sessions'[s].req[1].endpoint = "cleaning-estimate"

\* C11: for every last product of the compartment (none included) and every
\* requested product, the check returned has risk = (a last product exists
\* and its code is in the requested product's cross_contamination_risk) and
\* cleaning_required = (risk and the code is in cleaning_required_after);
\* without a last product the risk is false, and cleaning is never required
\* without a risk.
C11_ContaminationCheck ==
  [][\A s \in DOMAIN sessions :
        ValidateAnswered(s) /\ sessions'[s].resp[1].kind = "checks" =>
          LET as     == sessions'[s].req[1].compartment_assignments
              checks == sessions'[s].resp[1].checks
          IN  /\ Len(checks) = Len(as)
              /\ \A i \in 1..Len(as) :
                   LET last      == compartments[as[i].compartment_id].last_product_id
                       requested == products[as[i].fuel_product_id]
                       risk      == /\ last # None
                                    /\ products[last[1]].product_code
                                          \in requested.cross_contamination_risk
                       cleaning  == /\ risk
                                    /\ products[last[1]].product_code
                                          \in requested.cleaning_required_after
                   IN  /\ checks[i].compartment_id = as[i].compartment_id
                       /\ checks[i].contamination_risk = risk
                       /\ checks[i].cleaning_required = cleaning
                       /\ last = None => ~checks[i].contamination_risk
                       /\ checks[i].cleaning_required => checks[i].contamination_risk]_vars

\* A check of a product whose cleaning_required_after lists the compartment's
\* last product while its cross_contamination_risk does not.
C11_Witness ==
  \E s \in DOMAIN sessions :
     /\ sessions[s].pc = "done"
     /\ sessions[s].resp[1].kind = "checks"
     /\ \E i \in 1..Len(sessions[s].resp[1].checks) :
          /\ sessions[s].resp[1].checks[i].current_product = Some("ULSD")
          /\ sessions[s].resp[1].checks[i].requested_product = "DSL50"
          /\ ~sessions[s].resp[1].checks[i].contamination_risk

\* C12: the cleaning estimate is decided by the fuel types alone: 120 / 450
\* when the compartment's last product and the target product have the same
\* fuel type, 180 / 675 when their fuel types differ.
C12_EstimateByFuelType ==
  [][\A s \in DOMAIN sessions :
        /\ EstimateAnswered(s)
        /\ sessions'[s].resp[1].kind = "CleaningEstimate"
        /\ compartments[sessions'[s].req[1].compartment_id].last_product_id # None
        => LET c    == sessions'[s].req[1].compartment_id
               p    == sessions'[s].req[1].target_product_id
               last == products[compartments[c].last_product_id[1]]
               same == last.fuel_type = products[p].fuel_type
           IN  /\ sessions'[s].resp[1].time_required = IF same THEN 120 ELSE 180
               /\ sessions'[s].resp[1].cost_estimate = IF same THEN 450 ELSE 675]_vars

\* C13: a ContaminationRisk rejection with cleaning required carries the
\* compartment id, the compartment's last product, the requested product,
\* cleaning_required true and an estimated cleaning time of 120 when the two
\* products have the same fuel type and of 180 when they have not.
C13_ContaminationErrorEstimate ==
  [][\A s \in DOMAIN sessions :
        /\ CreateAnswered(s)
        /\ sessions'[s].pc = "done"
        /\ sessions'[s].resp[1].kind = "ContaminationRisk"
        /\ sessions'[s].resp[1].cleaning_required
        => LET resp == sessions'[s].resp[1]
               as   == sessions'[s].req[1].compartment_assignments
           IN  \E i \in 1..Len(as) :
                  /\ Risky(as[i])
                  /\ LET last == products[compartments[as[i].compartment_id]
                                             .last_product_id[1]]
                         requested == products[as[i].fuel_product_id]
                     IN  /\ resp.compartment_id = as[i].compartment_id
                         /\ resp.current_product = Some(last.product_code)
                         /\ resp.requested_product = requested.product_code
                         /\ resp.estimated_cleaning_time =
                              Some(IF last.fuel_type = requested.fuel_type
                                   THEN 120 ELSE 180)]_vars

----------------------------------------------------------------------------
(* Properties of the stored totals and of the assignment list *)

\* The sum of the assigned volumes of a set of assignment rows.
RECURSIVE SumVolume(_)
SumVolume(S) ==
  IF S = {} THEN 0
  ELSE LET a == CHOOSE x \in S : TRUE
       IN  a.assigned_volume_liters + SumVolume(S \ {a})

\* The sum of volume x density of a set of assignment rows, in 1/10000 kg.
RECURSIVE SumWeight(_)
SumWeight(S) ==
  IF S = {} THEN 0
  ELSE LET a == CHOOSE x \in S : TRUE
       IN  a.assigned_volume_liters * products[a.fuel_product_id].density_kg_per_liter
             + SumWeight(S \ {a})

\* stored (in 1/100) is exact (in 1/10000) rounded to two decimals.
RoundedTo2(stored, exact) ==
  /\ 2 * (stored * 100 - exact) <= 100
  /\ 2 * (exact - stored * 100) <= 100

\* C14 as stated: every stored delivery has total_volume_liters equal to the
\* sum of its assignments' volumes and total_weight_kg equal to the sum of
\* volume x density, and every assignment's calculated weight is its volume x
\* its product's density.
C14_AsStated ==
  \A d \in DOMAIN deliveries :
     /\ deliveries[d].total_volume_liters = SumVolume(AssignmentsOf(d))
     /\ deliveries[d].total_weight_kg * 100 = SumWeight(AssignmentsOf(d))
     /\ \A a \in AssignmentsOf(d) :
           a.calculated_weight_kg * 100 =
              a.assigned_volume_liters * products[a.fuel_product_id].density_kg_per_liter

\* C14 amended: the total volume is the exact sum; the stored total weight is
\* the sum of volume x density rounded to the two decimals of its column, and
\* each calculated weight is volume x density rounded likewise.
C14_TotalsRounded ==
  \A d \in DOMAIN deliveries :
     /\ deliveries[d].total_volume_liters = SumVolume(AssignmentsOf(d))
     /\ RoundedTo2(deliveries[d].total_weight_kg, SumWeight(AssignmentsOf(d)))
     /\ \A a \in AssignmentsOf(d) :
           RoundedTo2(a.calculated_weight_kg,
                      a.assigned_volume_liters
                         * products[a.fuel_product_id].density_kg_per_liter)

\* A stored two-compartment delivery whose weight has more than two decimals.
C14_Witness ==
  \E d \in DOMAIN deliveries :
     /\ deliveries[d].compartments_used = 2
     /\ deliveries[d].total_weight_kg * 100 # SumWeight(AssignmentsOf(d))

\* C15: every stored delivery's capacity_utilization_percent is total_volume
\* / total_capacity_liters x 100, and a creation whose total volume exceeds
\* the vehicle's capacity gives the caller the value above 100.
C15_UtilizationSurfaced ==
  /\ \A d \in DOMAIN deliveries :
        deliveries[d].capacity_utilization_percent
           * vehicles[deliveries[d].tanker_vehicle_id].total_capacity_liters
        = deliveries[d].total_volume_liters * 10000
  /\ \A s \in DOMAIN sessions :
        /\ sessions[s].pc = "done"
        /\ sessions[s].req # None
        /\ sessions[s].resp[1].kind \in {"Created", "InternalError"}
        /\ TotalVolume(sessions[s].req[1].compartment_assignments,
                       Len(sessions[s].req[1].compartment_assignments))
             > vehicles[sessions[s].req[1].tanker_vehicle_id].total_capacity_liters
        => /\ sessions[s].resp[1].kind = "Created"
           /\ sessions[s].resp[1].utilization_num
                 > 100 * sessions[s].resp[1].utilization_den

\* C16: a creation is accepted only with a non-empty assignment list of at
\* most compartment_count entries of the target vehicle and never more than
\* 12; a longer list is rejected and nothing is persisted.
C16_ListWithinCompartmentCount ==
  [][\A s \in DOMAIN sessions :
        CreateFinished(s) =>
          LET r == sessions'[s].req[1]
              n == Len(r.compartment_assignments)
          IN  /\ sessions'[s].resp[1].kind = "Created"
                 => /\ n >= 1
                    /\ n <= MaxAssignments
                    /\ n <= vehicles[r.tanker_vehicle_id].compartment_count
              /\ /\ r.tanker_vehicle_id \in DOMAIN vehicles
                 /\ n > vehicles[r.tanker_vehicle_id].compartment_count
                 => /\ sessions'[s].resp[1].kind # "Created"
                    /\ NothingPersisted]_vars

\* Every (delivery, compartment) pair has at most one stored assignment.
OneAssignmentPerCompartment ==
  \A a1 \in assignments : \A a2 \in assignments :
     a1.delivery_id = a2.delivery_id /\ a1.compartment_id = a2.compartment_id
        => a1 = a2

\* A request that names a compartment twice is refused by the schema.
DuplicateRejected ==
  \A s \in DOMAIN sessions :
     CreateAnswered(s) =>
        LET as == sessions'[s].req[1].compartment_assignments
        IN  (\E i \in 1..Len(as) : \E j \in 1..Len(as) :
                i # j /\ as[i].compartment_id = as[j].compartment_id)
            => /\ sessions'[s].pc = "done"
               /\ sessions'[s].resp[1].kind = "ValidationError"
               /\ NothingPersisted

\* C17: a creation request naming the same compartment_id twice is rejected
\* as a duplicate, and in every state each (delivery, compartment) pair has
\* at most one assignment.
C17_NoDuplicateCompartment ==
  [](OneAssignmentPerCompartment) /\ [][DuplicateRejected]_vars

\* A duplicate was refused while a two-compartment delivery is stored.
C17_Witness ==
  /\ \E s \in DOMAIN sessions :
        /\ sessions[s].pc = "done"
        /\ sessions[s].req # None
        /\ sessions[s].resp[1].kind = "ValidationError"
        /\ LET as == sessions[s].req[1].compartment_assignments
           IN  Len(as) = 2 /\ as[1].compartment_id = as[2].compartment_id
  /\ \E d \in DOMAIN deliveries : Cardinality(AssignmentsOf(d)) = 2

\* C18: every stored assignment refers to a compartment of the delivery's
\* vehicle that is operational.
C18_OwnOperationalCompartment ==
  \A a \in assignments :
     /\ compartments[a.compartment_id].tanker_vehicle_id
           = deliveries[a.delivery_id].tanker_vehicle_id
     /\ compartments[a.compartment_id].operational_status = "operational"

\* C19: no stored assignment is to a compartment whose requires_cleaning flag
\* is set.
C19_NoLoadBeforeCleaning ==
  \A a \in assignments : ~compartments[a.compartment_id].requires_cleaning

\* C20: a delivery whose status is not completed has no actual_completion,
\* distance_traveled_km or fuel_consumed_liters recorded.
C20_CompletionOnlyAtCompleted ==
  \A d \in DOMAIN deliveries :
     deliveries[d].delivery_status # "completed" =>
        /\ deliveries[d].actual_completion = None
        /\ deliveries[d].distance_traveled_km = None
        /\ deliveries[d].fuel_consumed_liters = None

----------------------------------------------------------------------------
(* Properties of telemetry and of the assignment lifecycle *)

\* C21: an update that supplies both a distance and a fuel figure stores both
\* and sets co2_emissions_kg to the fuel figure x 2.64, with or without a
\* completion timestamp in the same update.
C21_Co2FromFuel ==
  [][\A s \in DOMAIN sessions : \A u \in TelemetryUpdates :
        /\ UpdateDeliveryStatus(s, 1, u)
        /\ u.distance_traveled_km # None
        /\ u.fuel_consumed_liters # None
        => /\ deliveries'[1].distance_traveled_km = u.distance_traveled_km
           /\ deliveries'[1].fuel_consumed_liters = u.fuel_consumed_liters
           /\ deliveries'[1].co2_emissions_kg # None
           /\ deliveries'[1].co2_emissions_kg[1] * 100
                 = u.fuel_consumed_liters[1] * 264]_vars

\* The declared sequence of assignment states.
AssignmentSequence ==
  << "assigned", "loading", "loaded", "in_transit", "unloading", "delivered",
     "completed" >>

\* Every stored assignment is in a state of the declared sequence.
AssignmentStatusDeclared ==
  \A a \in assignments :
     \E i \in 1..Len(AssignmentSequence) : a.assignment_status = AssignmentSequence[i]

\* Every assignment row is kept as it is or moved to the next state of the
\* sequence, and a new row starts in the first state.
AssignmentStepLinear ==
  /\ \A a \in assignments :
        \/ a \in assignments'
        \/ \E b \in assignments' : \E i \in 1..(Len(AssignmentSequence) - 1) :
              /\ a.assignment_status = AssignmentSequence[i]
              /\ b = [a EXCEPT !.assignment_status = AssignmentSequence[i + 1]]
  /\ \A b \in assignments' :
        (\A a \in assignments :
            a.delivery_id # b.delivery_id \/ a.compartment_id # b.compartment_id)
        => b.assignment_status = AssignmentSequence[1]

\* C22: an assignment's status is always one of assigned, loading, loaded,
\* in_transit, unloading, delivered, completed, and over any sequence of
\* operations it only ever changes to the immediate successor state: no
\* skip, no backward move.
C22_AssignmentLinear ==
  [](AssignmentStatusDeclared) /\ [][AssignmentStepLinear]_vars

\* A delivery was taken to completed by a status update and then cancelled on
\* a later day while its assignments exist.
C22_Witness ==
  /\ now > 1
  /\ \E d \in DOMAIN deliveries :
        /\ deliveries[d].delivery_status = "cancelled"
        /\ deliveries[d].actual_completion # None
        /\ deliveries[d].updated_at > 1
        /\ Cardinality(AssignmentsOf(d)) = 2

\* The hazard class and the fuel type of the product assignment row a carries.
ProductSkills(a) ==
  { "hazmat_class_" \o products[a.fuel_product_id].hazmat_class,
    "fuel_type_" \o products[a.fuel_product_id].fuel_type }

\* A payload was returned for delivery d.
PayloadAnswered(s, d) ==
  /\ sessions[s].pc = "done"
  /\ sessions[s].resp[1].kind = "Payload"
  /\ sessions[s].resp[1].delivery_id = d

\* C23: the payload built for a delivery has exactly one shipment per
\* assignment, each with demand [weight_kg, volume_m3, 1] and the skills
\* hazmat_class_N of its product's class N, tanker_vehicle, fuel_delivery and
\* fuel_type_<its product's fuel type>, and exactly one vehicle with capacity
\* [0.8 x total_capacity_liters, total_capacity_liters / 1000,
\* compartment_count] whose skills are among those of its shipments.
C23_PayloadShape ==
  \A s \in DOMAIN sessions : \A d \in DOMAIN deliveries :
     PayloadAnswered(s, d) =>
       LET body == sessions[s].resp[1]
           rows == AssignmentsOf(d)
           v    == vehicles[deliveries[d].tanker_vehicle_id]
       IN  /\ Len(body.shipments) = Cardinality(rows)
           /\ \A a \in rows :
                 \E i \in 1..Len(body.shipments) :
                    /\ i = a.position
                    /\ body.shipments[i].amount[1] * 100 = a.calculated_weight_kg
                    /\ body.shipments[i].amount[2] = a.assigned_volume_liters
                    /\ body.shipments[i].amount[3] = 1
                    /\ body.shipments[i].skills
                          = ProductSkills(a) \cup { "tanker_vehicle", "fuel_delivery" }
           /\ Len(body.vehicles) = 1
           /\ body.vehicles[1].capacity[1] * 10 = v.total_capacity_liters * 8
           /\ body.vehicles[1].capacity[2] = v.total_capacity_liters
           /\ body.vehicles[1].capacity[3] = v.compartment_count
           /\ body.vehicles[1].skills
                 \subseteq UNION { body.shipments[i].skills : i \in 1..Len(body.shipments) }

\* C24: for every solver response an optimization-run record of the attempt
\* is stored; route summaries and route steps are stored only when the
\* response code is 0, so a nonzero code leaves a recorded attempt with no
\* route data.
C24_AttemptRecorded ==
  [][\A resp \in SolverResponses :
        /\ RunDirectOptimization(resp, TRUE)
        /\ resp.transport = "ok"
        /\ resp.http = 200
        => /\ Len(optimization_runs') = Len(optimization_runs) + 1
           /\ optimization_runs'[Len(optimization_runs')].raw_response.code = resp.code
           /\ resp.code # Some(0)
                => /\ route_summaries' = route_summaries
                   /\ route_steps' = route_steps]_vars

----------------------------------------------------------------------------
(* Frame and error properties over all operations, checked under SpecCore *)

\* Session s has just answered a request of any endpoint.
SessionAnswered(s) ==
  sessions[s].pc # "done" /\ sessions'[s].pc = "done"

\* The answers that report a stored change.
CommittedKinds == { "Created", "Updated" }

\* The five stored tables are what they were.
StoredUnchanged ==
  /\ vehicles' = vehicles
  /\ compartments' = compartments
  /\ products' = products
  /\ deliveries' = deliveries
  /\ assignments' = assignments

\* Session s holds the answer of a contamination check.
HoldsValidation(s) ==
  /\ sessions[s].pc = "done"
  /\ sessions[s].req # None
  /\ "endpoint" \in DOMAIN sessions[s].req[1]
  /\ sessions[s].req[1].endpoint = "validate-contamination"

\* The answer a contamination check holds is the answer the same check gives
\* on the state it left behind.
ValidationRepeatable ==
  \A s \in DOMAIN sessions :
     HoldsValidation(s) =>
        LET as == sessions[s].req[1].compartment_assignments
        IN  sessions[s].resp[1] =
              IF \A i \in 1..Len(as) : validate_volume(as[i].assigned_volume_liters)
              THEN validate_cross_contamination(as)
              ELSE [kind |-> "ValidationError"]

\* Every answer other than a committed creation or update leaves the stored
\* tables unchanged, and the tables change only in a step that answers with
\* a committed creation or update.
ChangeOnlyAtCommit ==
  /\ \A s \in DOMAIN sessions :
        SessionAnswered(s) /\ sessions'[s].resp[1].kind \notin CommittedKinds
        => StoredUnchanged
  /\ ~StoredUnchanged =>
        \E s \in DOMAIN sessions :
           SessionAnswered(s) /\ sessions'[s].resp[1].kind \in CommittedKinds

\* C25: validation has no side effects: the contamination check, the cleaning
\* estimate, the payload builder and every failed creation attempt leave the
\* stored vehicles, compartments, products, deliveries and assignments
\* unchanged, a repeated contamination check on an unchanged state returns
\* the same result, and stored state changes only at the final commit of a
\* successful creation or status update.
C25_NoSideEffects == [](ValidationRepeatable) /\ [][ChangeOnlyAtCommit]_vars

\* A contamination check found a risk while a delivery was stored.
C25_Witness ==
  \E s \in DOMAIN sessions :
     /\ HoldsValidation(s)
     /\ sessions[s].resp[1].kind = "checks"
     /\ \E i \in 1..Len(sessions[s].resp[1].checks) :
           sessions[s].resp[1].checks[i].contamination_risk
     /\ DOMAIN deliveries # {}

\* The request names no tanker of its project.
TankerAbsent(r) ==
  \/ r.tanker_vehicle_id \notin DOMAIN vehicles
  \/ vehicles[r.tanker_vehicle_id].project_id # r.project_id

\* Some assignment of the list names an absent compartment or product.
ReferenceAbsent(as) == \E i \in 1..Len(as) : ~Known(as[i])

\* Assignment i is the first of the list to fail a check, and fails a lookup.
FirstAbsent(as, i) ==
  /\ ~Known(as[i])
  /\ \A j \in 1..(i - 1) : Known(as[j]) /\ ~Overflows(as[j])

\* Session s has just refused a request with the given error and nothing
\* stored has changed.
RefusedWith(s, kind) ==
  /\ sessions'[s].pc = "done"
  /\ sessions'[s].resp[1].kind = kind
  /\ StoredUnchanged

\* Session s has just refused a request and nothing stored has changed.
Refused(s) ==
  /\ sessions'[s].pc = "done"
  /\ sessions'[s].resp[1].kind \notin CommittedKinds
  /\ StoredUnchanged

\* C26 as stated: an operation that references an absent vehicle (for the
\* given project), compartment, fuel product or delivery fails with NotFound
\* and changes no stored state.
C26_AsStated ==
  [][\A s \in DOMAIN sessions :
        /\ \A r \in CoreRequests :
              /\ CreateBegin(s, r)
              /\ TankerAbsent(r) \/ ReferenceAbsent(r.compartment_assignments)
              => RefusedWith(s, "NotFound")
        /\ \A d \in 1..MaxDeliveryId : \A u \in CoreUpdates :
              UpdateDeliveryStatus(s, d, u) /\ d \notin DOMAIN deliveries
              => RefusedWith(s, "NotFound") /\ d \notin DOMAIN deliveries'
        /\ \A as \in CoreValidations :
              ValidateContamination(s, as) /\ ReferenceAbsent(as)
              => RefusedWith(s, "NotFound")
        /\ \A c \in {1, 2, 5} : \A p \in {1, 4, 9} :
              /\ GetCleaningEstimate(s, c, p)
              /\ c \notin DOMAIN compartments \/ p \notin DOMAIN products
              => RefusedWith(s, "NotFound")
        /\ \A d \in 1..MaxDeliveryId :
              GetVroomIntegrationPayload(s, d) /\ d \notin DOMAIN deliveries
              => RefusedWith(s, "NotFound")]_vars

\* C26 amended: an operation that references an absent vehicle (for the given
\* project), compartment, fuel product or delivery is refused and changes no
\* stored state, a status update for an unknown delivery id creating no
\* delivery; the refusal is NotFound when no check that comes before the
\* failing lookup fails first: the request schema for every operation, and
\* for a compartment or product also the tanker lookup, the compliance gate
\* and the lookups and capacities of the assignments before it.
C26_NotFound ==
  [][\A s \in DOMAIN sessions :
        /\ \A r \in CoreRequests :
              LET as == r.compartment_assignments
              IN  CreateBegin(s, r) =>
                    /\ TankerAbsent(r) \/ ReferenceAbsent(as) => Refused(s)
                    /\ TankerAbsent(r) /\ RequestValid(r) => RefusedWith(s, "NotFound")
                    /\ /\ RequestValid(r)
                       /\ GatePassed(r)
                       /\ \E i \in 1..Len(as) : FirstAbsent(as, i)
                       => RefusedWith(s, "NotFound")
        /\ \A d \in 1..MaxDeliveryId : \A u \in CoreUpdates :
              UpdateDeliveryStatus(s, d, u) /\ d \notin DOMAIN deliveries
              => /\ Refused(s)
                 /\ d \notin DOMAIN deliveries'
                 /\ u.delivery_status \in DeliveryStatuses
                      => RefusedWith(s, "NotFound")
        /\ \A as \in CoreValidations :
              ValidateContamination(s, as) /\ ReferenceAbsent(as)
              => /\ Refused(s)
                 /\ /\ \A i \in 1..Len(as) : validate_volume(as[i].assigned_volume_liters)
                    /\ \E i \in 1..Len(as) : FirstAbsent(as, i)
                    => RefusedWith(s, "NotFound")
        /\ \A c \in {1, 2, 5} : \A p \in {1, 4, 9} :
              /\ GetCleaningEstimate(s, c, p)
              /\ c \notin DOMAIN compartments \/ p \notin DOMAIN products
              => RefusedWith(s, "NotFound")
        /\ \A d \in 1..MaxDeliveryId :
              GetVroomIntegrationPayload(s, d) /\ d \notin DOMAIN deliveries
              => RefusedWith(s, "NotFound")]_vars

\* A status update for an unknown id was answered NotFound while another
\* delivery was stored.
C26_Witness ==
  \E s \in DOMAIN sessions :
     /\ sessions[s].pc = "done"
     /\ sessions[s].req = None
     /\ sessions[s].resp[1].kind = "NotFound"
     /\ sessions[s].resp[1].id \notin DOMAIN deliveries
     /\ DOMAIN deliveries # {}

----------------------------------------------------------------------------
(* UAT intent detection, checked under SpecUat *)

\* Character c is the letter k, in either case.
SameLetter(c, k) ==
  c = k \/ \E i \in 1..Len(Uppercase) : Uppercase[i] = c /\ Lowercase[i] = k

\* The message contains the keyword, the case of its letters ignored.
Mentions(message, kw) ==
  \E i \in 0..(Len(message) - Len(kw)) :
     \A k \in 1..Len(kw) : SameLetter(message[i + k], kw[k])

\* The message contains a keyword of the scenario.
MentionsScenario(message, scenario) ==
  \E k \in 1..Len(scenario_map) :
     scenario_map[k][2] = scenario /\ Mentions(message, scenario_map[k][1])

\* The scenarios in the order of their keywords.
ScenarioOrder == << "login-flow", "vehicle-crud", "error-handling" >>

\* C27: detection reports (True, scenario) only when the message contains
\* both 'uat' (case-insensitive) and at least one scenario keyword, and
\* (False, None) whenever either is missing; with keywords of several
\* scenarios present the scenario is the one of the first matching keyword in
\* the fixed order login-flow, vehicle-crud, error-handling.
C27_UatIntent ==
  uat_intent # None =>
    LET is_uat   == uat_intent[1][1]
        scenario == uat_intent[1][2]
        named    == { n \in 1..Len(ScenarioOrder) :
                        MentionsScenario(uat_message, ScenarioOrder[n]) }
    IN  /\ is_uat <=> (Mentions(uat_message, UatKeyword) /\ named # {})
        /\ ~is_uat => scenario = None
        /\ is_uat =>
              /\ scenario # None
              /\ \E n \in named :
                    /\ scenario[1] = ScenarioOrder[n]
                    /\ \A j \in named : n <= j

\* An upper-case UAT message naming keywords of two scenarios was resolved to
\* the earlier one.
C27_Witness ==
  /\ uat_intent = Some(<< TRUE, Some("vehicle-crud") >>)
  /\ MentionsScenario(uat_message, "error-handling")
  /\ ~Contains(uat_message, UatKeyword)

----------------------------------------------------------------------------
(* Delivery references, master data and the order of the checks *)

\* No two stored deliveries carry the same reference, nor the same tanker
\* and creation day.
ReferencesUnique ==
  \A d1 \in DOMAIN deliveries : \A d2 \in DOMAIN deliveries :
     d1 # d2 =>
       /\ deliveries[d1].delivery_reference # deliveries[d2].delivery_reference
       /\ \/ deliveries[d1].tanker_vehicle_id # deliveries[d2].tanker_vehicle_id
          \/ deliveries[d1].created_at # deliveries[d2].created_at

\* A delivery of the tanker was created today.
CreatedToday(tanker) ==
  \E d \in DOMAIN deliveries :
     /\ deliveries[d].tanker_vehicle_id = tanker
     /\ deliveries[d].created_at = now

\* A creation attempt that builds its reference and inserts its row on a
\* day on which a delivery of its tanker was already created ends there and
\* stores nothing.
SecondAttemptRefused ==
  \A s \in DOMAIN sessions :
     /\ sessions[s].pc = "validated"
     /\ sessions'[s].pc # "validated"
     /\ CreatedToday(sessions[s].req[1].tanker_vehicle_id)
     => /\ sessions'[s].pc = "done"
        /\ sessions'[s].resp[1].kind # "Created"
        /\ NothingPersisted

\* C28: delivery references are unique across the stored deliveries; the
\* reference being derived from the creation date and the tanker id only,
\* once a delivery has been created for a tanker any further creation attempt
\* for that tanker on the same day produces no second delivery and leaves
\* the stored deliveries and assignments unchanged.
C28_ReferenceUnique == [](ReferencesUnique) /\ [][SecondAttemptRefused]_vars

\* An accepted request was repeated on the day of its delivery and failed at
\* the insert.
C28_Witness ==
  \E s \in DOMAIN sessions :
     /\ sessions[s].pc = "done"
     /\ sessions[s].req # None
     /\ "tanker_vehicle_id" \in DOMAIN sessions[s].req[1]
     /\ sessions[s].resp[1].kind = "InternalError"
     /\ sessions[s].resp[1].at = "flush"
     /\ CreatedToday(sessions[s].req[1].tanker_vehicle_id)

\* The columns of a compartment that say what it holds and whether it may be
\* loaded.
CompartmentState(c) ==
  << c.last_product_id, c.current_product_id, c.current_volume_liters,
     c.requires_cleaning, c.operational_status >>

\* The certification columns of a vehicle.
CertificationState(v) ==
  << v.dot_certified, v.hazmat_certification, v.certification_status,
     v.last_inspection >>

\* No compartment's state and no vehicle's certification is changed, and
\* every contamination check has the outcome it had.
MasterDataKept ==
  /\ DOMAIN compartments' = DOMAIN compartments
  /\ \A c \in DOMAIN compartments :
        CompartmentState(compartments'[c]) = CompartmentState(compartments[c])
  /\ DOMAIN vehicles' = DOMAIN vehicles
  /\ \A v \in DOMAIN vehicles :
        CertificationState(vehicles'[v]) = CertificationState(vehicles[v])
  /\ \A c \in DOMAIN compartments : \A p \in DOMAIN products :
        ContaminationCheck(Assign(c, p, 1000))' = ContaminationCheck(Assign(c, p, 1000))

\* C29: no operation of the core (creation, status update including the one
\* to completed, contamination check, cleaning estimate, payload build)
\* modifies a compartment's last product, current product, current volume,
\* requires_cleaning flag or operational status, or a vehicle's certification
\* fields; so the outcome of a contamination check for a compartment and a
\* product is the same before and after any sequence of deliveries through
\* the compartment.
C29_MasterDataFrame == [][MasterDataKept]_vars

\* A contamination check on compartment 1 was answered after a delivery
\* through that compartment had been completed.
C29_Witness ==
  \E s \in DOMAIN sessions :
     /\ HoldsValidation(s)
     /\ sessions[s].resp[1].kind = "checks"
     /\ sessions[s].req[1].compartment_assignments[1].compartment_id = 1
     /\ \E d \in DOMAIN deliveries :
           /\ deliveries[d].delivery_status = "completed"
           /\ \E a \in AssignmentsOf(d) : a.compartment_id = 1

\* The list has between 1 and 12 assignments, no compartment twice, and
\* every volume within the schema's range.
ShapeOk(r) ==
  LET as == r.compartment_assignments
  IN  /\ Len(as) # 0
      /\ Len(as) <= MaxAssignments
      /\ \A i \in 1..Len(as) :
            /\ as[i].assigned_volume_liters > 0
            /\ as[i].assigned_volume_liters <= MaxReasonableVolume
            /\ \A j \in 1..Len(as) :
                  as[i].compartment_id = as[j].compartment_id => i = j

\* The assignment fails a lookup or the capacity check.
FailsCheck(a) == ~Known(a) \/ Overflows(a)

\* The first position of the list that fails a lookup or the capacity check.
FirstFailing(as) ==
  CHOOSE i \in 1..Len(as) :
     FailsCheck(as[i]) /\ \A j \in 1..(i - 1) : ~FailsCheck(as[j])

\* The first position of the list that is a contamination risk.
FirstRisky(as) ==
  CHOOSE i \in 1..Len(as) : Risky(as[i]) /\ \A j \in 1..(i - 1) : ~Risky(as[j])

\* The one violation a creation request is to be answered with, as the kind
\* of the error, what it is about and the id it names; "none" for a request
\* without a violation.
ExpectedViolation(r) ==
  LET as == r.compartment_assignments
      v  == r.tanker_vehicle_id
  IN  IF ~ShapeOk(r) THEN << "ValidationError", "request", 0 >>
      ELSE IF TankerAbsent(r) THEN << "NotFound", "tanker_vehicle", v >>
      ELSE IF ~(vehicles[v].dot_certified /\ vehicles[v].certification_status = "certified")
        THEN << "ComplianceViolation", "tanker_vehicle", v >>
      ELSE IF \E i \in 1..Len(as) : FailsCheck(as[i])
        THEN LET a == as[FirstFailing(as)]
             IN  IF a.compartment_id \notin DOMAIN compartments
                   THEN << "NotFound", "compartment", a.compartment_id >>
                 ELSE IF a.fuel_product_id \notin DOMAIN products
                   THEN << "NotFound", "fuel_product", a.fuel_product_id >>
                 ELSE << "CapacityExceeded", "compartment", a.compartment_id >>
      ELSE IF \E i \in 1..Len(as) : Risky(as[i])
        THEN << "ContaminationRisk", "compartment",
                as[FirstRisky(as)].compartment_id >>
      ELSE << "none", "request", 0 >>

\* The violation an error answer reports, in the same form.
ReportedViolation(resp) ==
  CASE resp.kind = "ValidationError" -> << "ValidationError", "request", 0 >>
    [] resp.kind = "NotFound" -> << "NotFound", resp.what, resp.id >>
    [] resp.kind = "ComplianceViolation" ->
          << "ComplianceViolation", "tanker_vehicle", resp.vehicle_id >>
    [] resp.kind = "CapacityExceeded" ->
          << "CapacityExceeded", "compartment", resp.compartment_id >>
    [] resp.kind = "ContaminationRisk" ->
          << "ContaminationRisk", "compartment", resp.compartment_id >>
    [] OTHER -> << resp.kind, "request", 0 >>

====
